---- MODULE Spec2Model ----
(***************************************************************************)
(* Structural-symmetry scoring engines of the four-track analyzer          *)
(* repository: the FourTrackAnalyzer of core/analyzers, the                *)
(* FourTrackAnalyzer of src/dna_four_track_enhanced.py, the                *)
(* FourDimNineHarmonyModel of src/core_engine.py, the FDJTMS model of      *)
(* src/fd_jtms_v5.py and the CompositeAnalyzer of core/analyzers, with     *)
(* the DNA encoders of dna_encoder.py and dna_four_track_enhanced.py and   *)
(* the DataManager of core/data that feed them.                            *)
(* A behaviour fixes one input list `digits` and then calls the engines'   *)
(* entry points on it; `result` is the value the last call returned.       *)
(* Python floats are modelled as exact rationals.                          *)
(***************************************************************************)
EXTENDS Integers, Sequences, FiniteSets, TLC

VARIABLES
    digits,             \* the list passed to the entry points
    result,             \* what the last call returned; None before any call
    diagnosis_history,  \* FourDimNineHarmonyModel.diagnosis_history
    clock,              \* the wall clock read by datetime.now()
    calls_left,         \* how many more calls the caller makes
    files,              \* the files of DataManager.data_dir: name -> text
    cache,              \* CacheManager.cache with CacheManager.expire_times
    saved,              \* what the caller last saved under each name
    analyzers           \* the keys of CompositeAnalyzer.analyzers

vars == <<digits, result, diagnosis_history, clock, calls_left,
          files, cache, saved, analyzers>>

(***************************************************************************)
(* Bounds of the input families.                                           *)
(***************************************************************************)
MaxShortLen == 3
MaxWordLen == 4
MaxFTLen == 18
MaxCycLen == 25
MaxPadWord == 3
MaxOffset == 1
MinLongLen == 60
MaxLongLen == 73
MaxClock == 1
MinSessionLen == 11
MaxSessionLen == 14
MaxCalls == 3
MaxBitsLen == 4
MaxDnaLen == 4
MaxSaveLen == 3
MaxDigits == 2
MaxDataCalls == 3
MaxTailLen == 1
MaxRuleLen == 4
MaxRegistryCalls == 3

\* stands for a list element that is not a Python int (the '3' of the
\* error handling test)
NonInt == 99

Digit == 0..9

\* element values a caller may put into the list
Element == Digit \cup {-1, 10, NonInt}

IsInt(d) == d # NonInt

(***************************************************************************)
(* Generic helpers: lists, rationals.                                      *)
(***************************************************************************)
Reverse(s) == [i \in 1..Len(s) |-> s[Len(s) + 1 - i]]

\* Python slice s[a:b] for 0 <= a, clipped at the end of the list
Slice(s, a, b) ==
    LET hi == IF b < Len(s) THEN b ELSE Len(s)
    IN  IF a >= hi THEN <<>> ELSE [i \in 1..(hi - a) |-> s[a + i]]

Min(a, b) == IF a < b THEN a ELSE b

Abs(x) == IF x < 0 THEN -x ELSE x

RECURSIVE GCD(_, _)
GCD(a, b) == IF b = 0 THEN a ELSE GCD(b, a % b)

\* the rational n/d, d > 0, in lowest terms
Frac(n, d) ==
    LET g == GCD(Abs(n), d)
    IN  [num |-> n \div g, den |-> d \div g]

Zero == [num |-> 0, den |-> 1]
One == [num |-> 1, den |-> 1]
\* float('inf')
Inf == [num |-> 1, den |-> 0]

FAdd(a, b) == Frac(a.num * b.den + b.num * a.den, a.den * b.den)
FSub(a, b) == Frac(a.num * b.den - b.num * a.den, a.den * b.den)
FMul(a, b) == Frac(a.num * b.num, a.den * b.den)
FAbs(a) == [num |-> Abs(a.num), den |-> a.den]
FDivInt(a, k) == Frac(a.num, a.den * k)
FLe(a, b) == a.num * b.den <= b.num * a.den
FLt(a, b) == a.num * b.den < b.num * a.den

RECURSIVE SumSeq(_)
SumSeq(s) == IF s = <<>> THEN 0 ELSE s[1] + SumSeq(Tail(s))

\* number of elements of s that satisfy the test
Count(s, Test(_)) == Cardinality({i \in 1..Len(s) : Test(s[i])})

(***************************************************************************)
(* Input families.                                                         *)
(***************************************************************************)
SeqsUpTo(S, n) == UNION {[1..k -> S] : k \in 0..n}

\* the word w repeated cyclically up to length n
Cyc(w, n) == [i \in 1..n |-> w[((i - 1) % Len(w)) + 1]]

\* every list of at most MaxShortLen elements, valid or not
ShortInputs == SeqsUpTo(Element, MaxShortLen)

CycDigits == {1, 2, 8}

CycInputs ==
    {Cyc(w, n) : w \in (SeqsUpTo(CycDigits, MaxWordLen) \ {<<>>}), n \in 4..MaxFTLen}

\* the 10-digit lists of the global digit pairing tests
Scenarios ==
    { <<1, 8, 2, 7, 3, 6, 4, 5, 9, 0>>,
      <<1, 9, 2, 8, 3, 7, 4, 6, 5, 0>>,
      <<1, 8, 2, 5, 3, 6, 4, 7, 9, 0>>,
      <<1, 1, 1, 1, 1, 1, 1, 1, 1, 1>> }

\* the digits of pi used by the analyzer tests, and their prefixes
pi_digits == <<3, 1, 4, 1, 5, 9, 2, 6, 5, 3, 5, 8, 9, 7, 9>>

PiInputs == {SubSeq(pi_digits, 1, n) : n \in 1..Len(pi_digits)}

FTInputs == ShortInputs \cup CycInputs \cup Scenarios \cup PiInputs

\* cyclic words for the Omega engines: two digit pairs that between them
\* vary every attribute of the core_engine table
OmegaWords ==
    (SeqsUpTo({2, 8}, MaxWordLen) \cup SeqsUpTo({0, 1}, MaxWordLen)) \ {<<>>}

OmegaCycInputs == {Cyc(w, n) : w \in OmegaWords, n \in 0..MaxCycLen}

\* the word w inside a run of n digits 1, starting at offset off
Pad(off, w, n) ==
    [i \in 1..n |-> IF i > off /\ i <= off + Len(w) THEN w[i - off] ELSE 1]

PadInputs ==
    {Pad(off, w, n) : off \in 0..MaxOffset,
                      w \in (SeqsUpTo({0, 8}, MaxPadWord) \ {<<>>}),
                      n \in MinLongLen..MaxLongLen}

OmegaInputs == OmegaCycInputs \cup PadInputs

\* the list ds with its element at position i replaced by v
Dirty(ds, i, v) == [k \in 1..Len(ds) |-> IF k = i THEN v ELSE ds[k]]

SessionWords == {<<2, 8>>, <<0, 1, 1>>, <<1, 2, 8, 0, 9>>}

\* lists around the minimum length 12, clean or with one element that is
\* not a digit at the first or at the last position, and some long lists
SessionInputs ==
    LET clean == {Cyc(w, n) : w \in SessionWords, n \in MinSessionLen..MaxSessionLen}
    IN  clean \cup {Dirty(ds, i, v) : ds \in clean, i \in {1, MaxSessionLen},
                                      v \in Element \ Digit}
              \cup {Pad(0, w, MinLongLen) : w \in SessionWords}

\* characters of the strings given to the DNA encoders: the four bases, a
\* lower-case base and a letter that is no base
DnaChars == {"A", "C", "G", "T", "a", "N"}

DnaInputs == SeqsUpTo(DnaChars, MaxDnaLen)

None == [op |-> "none"]

(***************************************************************************)
(* core/analyzers: BaseAnalyzer and FourTrackAnalyzer.                     *)
(***************************************************************************)
\* the list argument is always a list here; every element must be an int
\* in 0..9 and the list must not be empty
\* validation that forgets the range test
validate_input_no_range(ds) ==
    /\ \A i \in 1..Len(ds) : IsInt(ds[i])
    /\ Len(ds) > 0

validate_input(ds) ==
    /\ \A i \in 1..Len(ds) : IsInt(ds[i]) /\ 0 <= ds[i] /\ ds[i] <= 9
    /\ Len(ds) > 0

Dimensions == <<"small_large", "up_down", "odd_even", "ab_relation">>

Attr(sl, ud, oe, ab) ==
    [small_large |-> sl, up_down |-> ud, odd_even |-> oe, ab_relation |-> ab]

number_attributes ==
    [d \in Digit |->
        CASE d = 0 -> Attr(0, 0, 0, 0)
          [] d = 1 -> Attr(1, 1, 1, 1)
          [] d = 2 -> Attr(1, 1, 0, 1)
          [] d = 3 -> Attr(1, 1, 1, 1)
          [] d = 4 -> Attr(1, 0, 0, 1)
          [] d = 5 -> Attr(1, 0, 1, 0)
          [] d = 6 -> Attr(1, 1, 0, 0)
          [] d = 7 -> Attr(1, 1, 1, 0)
          [] d = 8 -> Attr(0, 1, 0, 0)
          [] d = 9 -> Attr(0, 0, 1, 1)]

bagua_pairing ==
    (1 :> 8) @@ (2 :> 7) @@ (3 :> 6) @@ (4 :> 5) @@
    (5 :> 4) @@ (6 :> 3) @@ (7 :> 2) @@ (8 :> 1)

\* a table that is still one-to-one but gives 110 and 101 each other's id
state_encoding_swapped ==
    (<<1, 1, 1>> :> 1) @@ (<<1, 1, 0>> :> 3) @@ (<<1, 0, 1>> :> 2) @@
    (<<1, 0, 0>> :> 4) @@ (<<0, 1, 1>> :> 5) @@ (<<0, 1, 0>> :> 6) @@
    (<<0, 0, 1>> :> 7) @@ (<<0, 0, 0>> :> 8)

state_encoding ==
    (<<1, 1, 1>> :> 1) @@ (<<1, 1, 0>> :> 2) @@ (<<1, 0, 1>> :> 3) @@
    (<<1, 0, 0>> :> 4) @@ (<<0, 1, 1>> :> 5) @@ (<<0, 1, 0>> :> 6) @@
    (<<0, 0, 1>> :> 7) @@ (<<0, 0, 0>> :> 8)

\* the binary string is modelled as the list of its bits
binary_to_state_id(bits) ==
    IF Len(bits) # 3 THEN 1
    ELSE IF bits \in DOMAIN state_encoding THEN state_encoding[bits] ELSE 1

generate_track1_states(subseq, dim) ==
    binary_to_state_id([i \in 1..Len(subseq) |-> number_attributes[subseq[i]][dim]])

\* track1 branch: the four part states of every dimension
process_window(window) ==
    LET states(dim) ==
            [p1 |-> generate_track1_states(Slice(window, 0, 3), dim),
             p2 |-> generate_track1_states(Slice(window, 3, 6), dim),
             p3 |-> generate_track1_states(Slice(window, 6, 9), dim),
             p4 |-> generate_track1_states(Slice(window, 9, 12), dim)]
    IN  <<states(Dimensions[1]), states(Dimensions[2]),
          states(Dimensions[3]), states(Dimensions[4])>>

\* dict.get: None (modelled as 0) for a missing key
bagua_get(s) == IF s \in DOMAIN bagua_pairing THEN bagua_pairing[s] ELSE 0

\* a total that counts windows instead of pairing attempts
PairResult_per_window(v, t) ==
    [valid_pairs |-> v, total_pairs |-> t \div 2,
     pair_ratio |-> IF t \div 2 > 0 THEN Frac(v, t \div 2) ELSE Zero]

PairResult(v, t) ==
    [valid_pairs |-> v, total_pairs |-> t,
     pair_ratio |-> IF t > 0 THEN Frac(v, t) ELSE Zero]

\* only the part1/part3 attempt of a window is counted
calculate_nine_sum_pairs_first_pair(states) ==
    LET hit(k) == IF bagua_get(states[k].p1) = states[k].p3 THEN 1 ELSE 0
    IN  PairResult(SumSeq([k \in 1..Len(states) |-> hit(k)]), Len(states))

\* track1 branch
calculate_nine_sum_pairs(states) ==
    LET hit(k) == (IF bagua_get(states[k].p1) = states[k].p3 THEN 1 ELSE 0)
                + (IF bagua_get(states[k].p2) = states[k].p4 THEN 1 ELSE 0)
    IN  PairResult(SumSeq([k \in 1..Len(states) |-> hit(k)]), 2 * Len(states))

\* digit pairing tables of tracks 2-4 (both orders are listed in the source)
ValidDigitPairs(track_name) ==
    CASE track_name = "track2" ->
            {<<1, 8>>, <<8, 1>>, <<2, 7>>, <<7, 2>>, <<3, 6>>, <<6, 3>>,
             <<4, 5>>, <<5, 4>>, <<9, 0>>, <<0, 9>>}
      [] track_name = "track3" ->
            {<<1, 9>>, <<9, 1>>, <<2, 8>>, <<8, 2>>, <<3, 7>>, <<7, 3>>,
             <<4, 6>>, <<6, 4>>, <<5, 0>>, <<0, 5>>}
      [] track_name = "track4" ->
            {<<1, 8>>, <<8, 1>>, <<2, 5>>, <<5, 2>>, <<3, 6>>, <<6, 3>>,
             <<4, 7>>, <<7, 4>>, <<9, 0>>, <<0, 9>>}
      [] OTHER -> {}

is_valid_digit_pair(d1, d2, track_name) == <<d1, d2>> \in ValidDigitPairs(track_name)

\* consecutive non-overlapping pairs (i, i+1), i = 0, 2, 4, ...
calculate_digit_pairs(ds, track_name) ==
    LET starts == {i \in 0..(Len(ds) - 2) : i % 2 = 0}
        good == {i \in starts : is_valid_digit_pair(ds[i + 1], ds[i + 2], track_name)}
    IN  PairResult(Cardinality(good), Cardinality(starts))

track_mappings ==
    [t \in {"track2", "track3", "track4"} |->
        CASE t = "track2" -> [d \in Digit |-> <<"E", "A", "B", "C", "D", "D", "C", "B", "A", "E">>[d + 1]]
          [] t = "track3" -> [d \in Digit |-> <<"wu", "jia", "yi", "bing", "ding", "wu", "ding", "bing", "yi", "jia">>[d + 1]]
          [] t = "track4" -> [d \in Digit |-> <<"gui", "ji", "geng", "xin", "ren", "geng", "xin", "ren", "ji", "gui">>[d + 1]]]

yinyang_classifications ==
    [t \in {"track2", "track3", "track4"} |->
        CASE t = "track2" -> [yang |-> {"A", "C", "E"}, yin |-> {"B", "D"}]
          [] t = "track3" -> [yang |-> {"jia", "bing", "wu"}, yin |-> {"yi", "ding"}]
          [] t = "track4" -> [yang |-> {"ji", "xin", "gui"}, yin |-> {"geng", "ren"}]]

\* the cached symbol lists hold the mappings of 0..9 in order; a Python
\* list index in -10..-1 counts from the end of the list
get_symbols(track_name, ds) ==
    [i \in 1..Len(ds) |->
        track_mappings[track_name][IF ds[i] < 0 THEN ds[i] + 10 ELSE ds[i]]]

calculate_yinyang(ds, track_name) ==
    LET symbols == get_symbols(track_name, ds)
        IsSmall(d) == 1 <= d /\ d <= 7
        IsYang(x) == x \in yinyang_classifications[track_name].yang
        IsYin(x) == x \in yinyang_classifications[track_name].yin
        yang_count == IF track_name = "track1" THEN Count(ds, IsSmall)
                      ELSE Count(symbols, IsYang)
        yin_count == IF track_name = "track1" THEN Len(ds) - yang_count
                     ELSE Count(symbols, IsYin)
    IN  [yang_count |-> yang_count,
         yin_count |-> yin_count,
         ratio |-> IF yin_count > 0 THEN Frac(yang_count, yin_count) ELSE Inf,
         yang_percent |-> IF Len(ds) > 0 THEN Frac(yang_count, Len(ds)) ELSE Zero]

analyze_direct_pairing(ds, track_name) ==
    IF Len(ds) < 2
    THEN [valid_pairs |-> 0, total_pairs |-> 0, pair_ratio |-> Zero, unpaired_count |-> 0]
    ELSE LET total_pairs == Len(ds) \div 2
             good == {i \in 0..(Len(ds) - 2) :
                         i % 2 = 0 /\ is_valid_digit_pair(ds[i + 1], ds[i + 2], track_name)}
             valid_pairs == Cardinality(good)
         IN  [valid_pairs |-> valid_pairs,
              total_pairs |-> total_pairs,
              pair_ratio |-> IF total_pairs > 0 THEN Frac(valid_pairs, total_pairs) ELSE Zero,
              unpaired_count |-> Len(ds) % 2]

Rule(d1, d2, type, yy) == [d1 |-> d1, d2 |-> d2, type |-> type, yinyang |-> yy]

\* rule tables in which the digit 1 belongs to two unordered pairs
pair_rules_overlapping(track_name) ==
    IF track_name \in {"track2", "track3", "track4"}
    THEN << Rule(1, 8, "A", "yang"), Rule(8, 1, "A", "yang"),
            Rule(1, 9, "B", "yin"),  Rule(9, 1, "B", "yin"),
            Rule(2, 7, "C", "yang"), Rule(7, 2, "C", "yang"),
            Rule(3, 6, "D", "yin"),  Rule(6, 3, "D", "yin"),
            Rule(4, 5, "E", "yang"), Rule(5, 4, "E", "yang") >>
    ELSE <<>>

\* the pairing rules in their declared order
pair_rules(track_name) ==
    CASE track_name = "track2" ->
            << Rule(1, 8, "A", "yang"), Rule(8, 1, "A", "yang"),
               Rule(2, 7, "B", "yin"),  Rule(7, 2, "B", "yin"),
               Rule(3, 6, "C", "yang"), Rule(6, 3, "C", "yang"),
               Rule(4, 5, "D", "yin"),  Rule(5, 4, "D", "yin"),
               Rule(9, 0, "E", "yang"), Rule(0, 9, "E", "yang") >>
      [] track_name = "track3" ->
            << Rule(1, 9, "jia", "yang"),  Rule(9, 1, "jia", "yang"),
               Rule(2, 8, "yi", "yin"),    Rule(8, 2, "yi", "yin"),
               Rule(3, 7, "bing", "yang"), Rule(7, 3, "bing", "yang"),
               Rule(4, 6, "ding", "yin"),  Rule(6, 4, "ding", "yin"),
               Rule(5, 0, "wu", "yang"),   Rule(0, 5, "wu", "yang") >>
      [] track_name = "track4" ->
            << Rule(1, 8, "one", "yang"),   Rule(8, 1, "one", "yang"),
               Rule(2, 5, "two", "yin"),    Rule(5, 2, "two", "yin"),
               Rule(3, 6, "three", "yang"), Rule(6, 3, "three", "yang"),
               Rule(4, 7, "four", "yin"),   Rule(7, 4, "four", "yin"),
               Rule(9, 0, "five", "yang"),  Rule(0, 9, "five", "yang") >>
      [] OTHER -> <<>>

\* Counter(digits): occurrences of every value, 0 for an absent one
Counter(ds) ==
    [d \in Digit \cup {ds[i] : i \in 1..Len(ds)} |->
        Cardinality({i \in 1..Len(ds) : ds[i] = d})]

\* number of pairs one rule can form from the remaining counts
pair_count_of(rule, remaining) ==
    IF rule.d1 = rule.d2
    THEN remaining[rule.d1] \div 2
    ELSE Min(remaining[rule.d1], remaining[rule.d2])

\* the rule loop without the subtraction of the consumed digits
apply_rule_no_consume(acc, rule) ==
    LET pair_count == pair_count_of(rule, acc.remaining)
    IN  IF pair_count > 0
        THEN [acc EXCEPT !.valid_pairs = @ + pair_count,
                         !.pair_types = (rule.type :> [count |-> pair_count,
                                                       yinyang |-> rule.yinyang]) @@ @]
        ELSE acc

\* one iteration of the rule loop on the accumulator
\* [valid_pairs, pair_types, remaining]
apply_rule(acc, rule) ==
    LET pair_count == pair_count_of(rule, acc.remaining)
        old == IF rule.type \in DOMAIN acc.pair_types
               THEN acc.pair_types[rule.type].count ELSE 0
    IN  IF pair_count > 0
        THEN [valid_pairs |-> acc.valid_pairs + pair_count,
              pair_types |-> (rule.type :> [count |-> old + pair_count,
                                            yinyang |-> IF rule.type \in DOMAIN acc.pair_types
                                                        THEN acc.pair_types[rule.type].yinyang
                                                        ELSE rule.yinyang])
                             @@ acc.pair_types,
              remaining |-> IF rule.d1 = rule.d2
                            THEN [acc.remaining EXCEPT ![rule.d1] = @ - pair_count * 2]
                            ELSE [acc.remaining EXCEPT ![rule.d1] = @ - pair_count,
                                                       ![rule.d2] = @ - pair_count]]
        ELSE acc

RECURSIVE apply_rules(_, _, _)
apply_rules(acc, rules, i) ==
    IF i > Len(rules) THEN acc
    ELSE apply_rules(apply_rule(acc, rules[i]), rules, i + 1)

\* a dict that also lists the digits that were used up
unpaired_of_with_zeros(remaining) ==
    [d \in {x \in DOMAIN remaining : remaining[x] >= 0} |-> remaining[d]]

\* the dict {digit: count} of the digits whose remaining count is positive
unpaired_of(remaining) ==
    [d \in {x \in DOMAIN remaining : remaining[x] > 0} |-> remaining[d]]

EmptyGlobal ==
    [valid_pairs |-> 0, total_pairs |-> 0, pair_ratio |-> Zero,
     pair_types |-> <<>>, unpaired |-> <<>>]

\* global pairs counted on adjacent positions, which depend on the order
analyze_global_digit_pairs_adjacent(ds, track_name) ==
    [EmptyGlobal EXCEPT
        !.valid_pairs = calculate_digit_pairs(ds, track_name).valid_pairs,
        !.total_pairs = calculate_digit_pairs(ds, track_name).total_pairs,
        !.pair_ratio = calculate_digit_pairs(ds, track_name).pair_ratio]

\* the rule loop and the returned dictionary, for a given list of rules
global_pairing(ds, rules) ==
    LET final == apply_rules([valid_pairs |-> 0, pair_types |-> <<>>,
                              remaining |-> Counter(ds)],
                             rules, 1)
        total_pairs == Len(ds) \div 2
    IN  [valid_pairs |-> final.valid_pairs,
         total_pairs |-> total_pairs,
         pair_ratio |-> IF total_pairs > 0
                        THEN Frac(final.valid_pairs, total_pairs) ELSE Zero,
         pair_types |-> final.pair_types,
         unpaired |-> unpaired_of(final.remaining)]

analyze_global_digit_pairs(ds, track_name) ==
    IF track_name \notin {"track2", "track3", "track4"}
    THEN EmptyGlobal
    ELSE global_pairing(ds, pair_rules(track_name))

Tracks == <<"track1", "track2", "track3", "track4">>

ZeroPairs == [valid_pairs |-> 0, total_pairs |-> 0, pair_ratio |-> Zero]

\* window starts that keep a last window of fewer than 12 digits
track1_window_starts_keep_short(sequence) == 0..(Len(sequence) - 11)

\* start offsets of the track-1 windows: range(0, len - 11 + 1), of which
\* only the slices of full length 12 are kept
track1_window_starts(sequence) ==
    {i \in 0..(Len(sequence) - 11) : Len(Slice(sequence, i, i + 12)) = 12}

\* the loop that adds up the nine-sum pair results of the windows 1..n
RECURSIVE sum_windows(_, _, _, _, _)
sum_windows(sequence, n, j, symbol_valid, symbol_total) ==
    IF j > n THEN <<symbol_valid, symbol_total>>
    ELSE LET pair_result ==
                 calculate_nine_sum_pairs(process_window(Slice(sequence, j - 1, j + 11)))
         IN  sum_windows(sequence, n, j + 1,
                         symbol_valid + pair_result.valid_pairs,
                         symbol_total + pair_result.total_pairs)

analyze_track(sequence, track_name) ==
    IF Len(sequence) < 2
    THEN [window_count |-> 0,
          symbol_pairs |-> ZeroPairs,
          digit_pairs |-> ZeroPairs,
          global_digit_pairs |-> EmptyGlobal,
          yinyang |-> [yang_count |-> 0, yin_count |-> 0, ratio |-> Zero,
                       yang_percent |-> Zero]]
    ELSE IF track_name = "track1"
    THEN LET starts == track1_window_starts(sequence)
             \* the kept starts are 0, 1, ..., in increasing order
             sums == sum_windows(sequence, Cardinality(starts), 1, 0, 0)
             symbol_valid == sums[1]
             symbol_total == sums[2]
         IN  [window_count |-> Cardinality(starts),
              symbol_pairs |-> PairResult(symbol_valid, symbol_total),
              digit_pairs |-> calculate_digit_pairs(sequence, track_name),
              global_digit_pairs |-> EmptyGlobal,
              yinyang |-> calculate_yinyang(sequence, track_name)]
    ELSE [window_count |-> 0,
          symbol_pairs |-> ZeroPairs,
          digit_pairs |-> ZeroPairs,
          global_digit_pairs |-> analyze_global_digit_pairs(sequence, track_name),
          yinyang |-> calculate_yinyang(sequence, track_name)]

\* 1 - diff if diff <= 1 else 0
Similarity(diff) == IF FLe(diff, One) THEN FSub(One, diff) ELSE Zero

calculate_symmetry(forward_result, backward_result) ==
    LET pair_ratio_diff == FAbs(FSub(forward_result.symbol_pairs.pair_ratio,
                                     backward_result.symbol_pairs.pair_ratio))
        pair_ratio_similarity == Similarity(pair_ratio_diff)
        forward_global_ratio ==
            IF "global_digit_pairs" \in DOMAIN forward_result
            THEN forward_result.global_digit_pairs.pair_ratio ELSE Zero
        backward_global_ratio ==
            IF "global_digit_pairs" \in DOMAIN backward_result
            THEN backward_result.global_digit_pairs.pair_ratio ELSE Zero
        global_ratio_diff == FAbs(FSub(forward_global_ratio, backward_global_ratio))
        global_ratio_similarity == Similarity(global_ratio_diff)
        yang_percent_diff == FAbs(FSub(forward_result.yinyang.yang_percent,
                                       backward_result.yinyang.yang_percent))
        yang_percent_similarity == Similarity(yang_percent_diff)
        overall_symmetry ==
            IF /\ "global_digit_pairs" \in DOMAIN forward_result
               /\ "global_digit_pairs" \in DOMAIN backward_result
            THEN FDivInt(FAdd(FAdd(pair_ratio_similarity, global_ratio_similarity),
                              yang_percent_similarity), 3)
            ELSE FDivInt(FAdd(pair_ratio_similarity, yang_percent_similarity), 2)
    IN  [pair_ratio_diff |-> pair_ratio_diff,
         pair_ratio_similarity |-> pair_ratio_similarity,
         global_ratio_diff |-> global_ratio_diff,
         global_ratio_similarity |-> global_ratio_similarity,
         yang_percent_diff |-> yang_percent_diff,
         yang_percent_similarity |-> yang_percent_similarity,
         window_diff |-> Abs(forward_result.window_count - backward_result.window_count),
         overall_symmetry |-> overall_symmetry]

calculate_pairing_symmetry(forward_result, backward_result) ==
    LET pair_ratio_diff == FAbs(FSub(forward_result.pair_ratio, backward_result.pair_ratio))
    IN  [pair_ratio_diff |-> pair_ratio_diff,
         pair_ratio_similarity |-> Similarity(pair_ratio_diff),
         valid_pairs_diff |-> Abs(forward_result.valid_pairs - backward_result.valid_pairs),
         total_pairs_diff |-> Abs(forward_result.total_pairs - backward_result.total_pairs)]

\* track_symmetry, overall_symmetry and symmetry_distribution of the summary
generate_reverse_analysis_summary(results) ==
    LET score(k) == results[k].symmetry.overall_symmetry
        high == {k \in 1..4 : FLt(Frac(4, 5), score(k))}
        medium == {k \in 1..4 : k \notin high /\ FLt(Frac(2, 5), score(k))}
    IN  [track_symmetry |-> [track1 |-> score(1), track2 |-> score(2),
                             track3 |-> score(3), track4 |-> score(4)],
         overall_symmetry |-> FDivInt(FAdd(FAdd(score(1), score(2)),
                                           FAdd(score(3), score(4))), 4),
         symmetry_distribution |-> [high |-> Cardinality(high),
                                    medium |-> Cardinality(medium),
                                    low |-> 4 - Cardinality(high) - Cardinality(medium)]]

create_error_response(error_message) ==
    [op |-> "FourTrackAnalyzer.analyze",
     error |-> error_message,
     track1 |-> <<>>, track2 |-> <<>>, track3 |-> <<>>, track4 |-> <<>>,
     direct_pairing |-> <<>>]

\* whether the body of analyze raises on a list that got past validation:
\* a non-int element fails the comparisons of calculate_yinyang, a window
\* element outside 0..9 is a missing key of number_attributes, and an
\* element outside -10..9 is out of range for the cached symbol lists
analysis_raises(ds) ==
    /\ Len(ds) >= 2
    /\ \/ \E i \in 1..Len(ds) : ~IsInt(ds[i])
       \/ Len(ds) >= 12 /\ \E i \in 1..Len(ds) : ds[i] \notin Digit
       \/ \E i \in 1..Len(ds) : ds[i] > 9 \/ ds[i] < -10

\* results[track_name] of analyze: both directions and their symmetry
track_entry_of(forward_result, backward_result) ==
    [forward |-> forward_result,
     backward |-> backward_result,
     symmetry |-> calculate_symmetry(forward_result, backward_result)]

track_entry(ds, reversed_digits, track_name) ==
    track_entry_of(analyze_track(ds, track_name),
                   analyze_track(reversed_digits, track_name))

\* direct_pairing_results[track_name] of analyze
direct_entry_of(forward_pairing, backward_pairing) ==
    [forward |-> forward_pairing,
     backward |-> backward_pairing,
     symmetry |-> calculate_pairing_symmetry(forward_pairing, backward_pairing)]

direct_entry(ds, reversed_digits, track_name) ==
    direct_entry_of(analyze_direct_pairing(ds, track_name),
                    analyze_direct_pairing(reversed_digits, track_name))

\* the dictionary analyze returns; results lists the entries of track1..4
\* and direct those of track2..4.  The fingerprint entry only copies fields
\* of the track results and is left out.
analysis_response(results, direct) ==
    [op |-> "FourTrackAnalyzer.analyze",
     track1 |-> results[1],
     track2 |-> results[2],
     track3 |-> results[3],
     track4 |-> results[4],
     direct_pairing |-> [track2 |-> direct[1], track3 |-> direct[2],
                         track4 |-> direct[3]],
     reverse_analysis |-> generate_reverse_analysis_summary(results)]

\* the loop of analyze over the four tracks
analyze_tracks(ds, reversed_digits) ==
    analysis_response(
        [k \in 1..4 |-> track_entry(ds, reversed_digits, Tracks[k])] \o <<>>,
        [k \in 1..3 |-> direct_entry(ds, reversed_digits, Tracks[k + 1])] \o <<>>)

\* FourTrackAnalyzer.analyze
analyze(ds) ==
    IF ~validate_input(ds)
    THEN create_error_response("validation")
    ELSE IF analysis_raises(ds)
    THEN create_error_response("exception")
    ELSE analyze_tracks(ds, Reverse(ds))

(***************************************************************************)
(* core/analyzers/composite_analyzer.py: CompositeAnalyzer.  The pattern   *)
(* and statistical sections are floating-point statistics that no score    *)
(* modelled here reads; they are left out of the result.                   *)
(***************************************************************************)
EmptyDict == <<>>

\* d.get(key, default)
dict_get(d, key, default) == IF key \in DOMAIN d THEN d[key] ELSE default

\* results['four_track'].get('track1', {}).get('symbol_pairs', {})
\*                      .get('pair_ratio', 0)
four_track_pair_ratio(four_track) ==
    dict_get(dict_get(dict_get(four_track, "track1", EmptyDict),
                      "symbol_pairs", EmptyDict),
             "pair_ratio", Zero)

\* min(pair_ratio * 2, 1.0)
calculate_symmetry_score(four_track) ==
    IF FLe(FMul(four_track_pair_ratio(four_track), Frac(2, 1)), One)
    THEN FMul(four_track_pair_ratio(four_track), Frac(2, 1))
    ELSE One

Composite_invalid_response ==
    [op |-> "CompositeAnalyzer.analyze", error |-> "Invalid input",
     four_track |-> EmptyDict, pattern |-> EmptyDict,
     statistical |-> EmptyDict, summary |-> EmptyDict]

Composite_response(four_track) ==
    [op |-> "CompositeAnalyzer.analyze",
     four_track |-> four_track,
     summary |-> [four_track_pair_ratio |-> four_track_pair_ratio(four_track)],
     scores |-> [symmetry |-> calculate_symmetry_score(four_track)]]

\* the sub-analyzers run whatever the list holds
Composite_analyze_unvalidated(ds) == Composite_response(analyze(ds))

\* CompositeAnalyzer.analyze
Composite_analyze(ds) ==
    IF ~validate_input(ds) THEN Composite_invalid_response
    ELSE Composite_response(analyze(ds))

\* the keys of results that _generate_summary reads, in its reading order
summary_keys == <<"statistical", "pattern", "four_track">>

\* the first key _generate_summary does not find in results
first_missing(an) ==
    summary_keys[CHOOSE i \in 1..Len(summary_keys) :
                     /\ summary_keys[i] \notin DOMAIN an
                     /\ \A j \in 1..(i - 1) : summary_keys[j] \in DOMAIN an]

\* analyzer.analyze(digits) of a registered analyzer: the four-track
\* result, or the dictionary of another class, which has no track keys
run_analyzer(class, ds) ==
    IF class = "FourTrackAnalyzer" THEN analyze(ds) ELSE [analyzer |-> class]

\* CompositeAnalyzer.analyze with the registered analyzers `an`
\* (name -> class): results holds one entry per registered name
Composite_analyze_registry(an, ds) ==
    IF ~validate_input(ds) THEN Composite_analyze(ds)
    ELSE IF \E i \in 1..Len(summary_keys) : summary_keys[i] \notin DOMAIN an
    THEN [op |-> "CompositeAnalyzer.analyze", raised |-> "KeyError",
          key |-> first_missing(an)]
    ELSE IF an["four_track"] = "FourTrackAnalyzer" THEN Composite_analyze(ds)
    ELSE Composite_response(run_analyzer(an["four_track"], ds))

(***************************************************************************)
(* src/dna_four_track_enhanced.py: FourTrackAnalyzer (enhanced variant).   *)
(* Its number_attributes, bagua_pairing and state_encoding tables equal    *)
(* those of core/analyzers.                                                *)
(***************************************************************************)
Enh_track_mappings ==
    [t \in {"track2", "track3", "track4"} |->
        CASE t = "track2" -> [d \in Digit |-> <<"E", "A", "B", "C", "D", "D", "C", "B", "A", "E">>[d + 1]]
          [] t = "track3" -> [d \in Digit |-> <<"wu", "jia", "yi", "bing", "ding", "wu", "ding", "bing", "yi", "jia">>[d + 1]]
          [] t = "track4" -> [d \in Digit |-> <<"five", "one", "two", "three", "four", "two", "three", "four", "one", "five">>[d + 1]]]

Enh_yinyang_class ==
    [t \in {"track2", "track3", "track4"} |->
        CASE t = "track2" -> [yang |-> {"A", "C", "E"}, yin |-> {"B", "D"}]
          [] t = "track3" -> [yang |-> {"jia", "bing", "wu"}, yin |-> {"yi", "ding"}]
          [] t = "track4" -> [yang |-> {"one", "three", "five"}, yin |-> {"two", "four"}]]

EnhPairs(v, t) == [valid |-> v, total |-> t, ratio |-> IF t > 0 THEN Frac(v, t) ELSE Zero]

Enh_get_track1_state(subseq, dim) ==
    LET binary == [i \in 1..Len(subseq) |-> number_attributes[subseq[i]][dim]]
    IN  IF binary \in DOMAIN state_encoding THEN state_encoding[binary] ELSE 1

\* track1 has no rule; tracks 2-4 declare the same rule lists as core/analyzers
Enh_pair_rules(track_name) ==
    IF track_name = "track1" THEN <<>> ELSE pair_rules(track_name)

Enh_analyze_global_pairs(ds, track_name) ==
    LET final == apply_rules([valid_pairs |-> 0, pair_types |-> <<>>,
                              remaining |-> Counter(ds)],
                             Enh_pair_rules(track_name), 1)
        total_pairs == Len(ds) \div 2
    IN  [valid |-> final.valid_pairs,
         total |-> total_pairs,
         ratio |-> IF total_pairs > 0 THEN Frac(final.valid_pairs, total_pairs) ELSE Zero,
         pair_types |-> final.pair_types,
         unpaired |-> unpaired_of(final.remaining)]

EnhEmptyTrack ==
    [window_count |-> 0,
     symbol_pairs |-> EnhPairs(0, 0),
     digit_pairs |-> EnhPairs(0, 0),
     global_digit_pairs |-> [valid |-> 0, total |-> 0, ratio |-> Zero,
                             pair_types |-> <<>>, unpaired |-> <<>>],
     yinyang |-> [yang |-> 0, yin |-> 0, ratio |-> Zero, yang_percent |-> Zero]]

\* window start offsets: range(0, len - 11, 5)
Enh_window_starts(ds) ==
    {i \in 0..(Len(ds) - 12) : i % 5 = 0 /\ Len(Slice(ds, i, i + 12)) = 12}

Enh_analyze_track1(ds) ==
    IF Len(ds) < 12 THEN EnhEmptyTrack
    ELSE LET starts == Enh_window_starts(ds)
             hits(i) ==
                 LET window == Slice(ds, i, i + 12)
                     p1 == Slice(window, 0, 3)
                     p2 == Slice(window, 3, 6)
                     p3 == Slice(window, 6, 9)
                     p4 == Slice(window, 9, 12)
                     hit(dim) ==
                         (IF bagua_get(Enh_get_track1_state(p1, dim)) = Enh_get_track1_state(p3, dim)
                          THEN 1 ELSE 0)
                       + (IF bagua_get(Enh_get_track1_state(p2, dim)) = Enh_get_track1_state(p4, dim)
                          THEN 1 ELSE 0)
                 IN  SumSeq([k \in 1..4 |-> hit(Dimensions[k])])
             symbol_valid == SumSeq([j \in 1..Cardinality(starts) |-> hits(5 * (j - 1))])
             symbol_total == 8 * Cardinality(starts)
             digit_total == Cardinality({i \in 0..(Len(ds) - 2) : i % 2 = 0})
             IsSmall(d) == 1 <= d /\ d <= 7
             yang_count == Count(ds, IsSmall)
             yin_count == Len(ds) - yang_count
         IN  [window_count |-> Cardinality(starts),
              symbol_pairs |-> IF symbol_total > 0 THEN EnhPairs(symbol_valid, symbol_total)
                               ELSE EnhPairs(0, 0),
              \* _is_valid_track1_pair is always False
              digit_pairs |-> IF digit_total > 0 THEN EnhPairs(0, digit_total)
                              ELSE EnhPairs(0, 0),
              global_digit_pairs |-> Enh_analyze_global_pairs(ds, "track1"),
              yinyang |-> [yang |-> yang_count,
                           yin |-> yin_count,
                           ratio |-> IF yin_count > 0 THEN Frac(yang_count, yin_count) ELSE Zero,
                           yang_percent |-> IF Len(ds) > 0 THEN Frac(yang_count, Len(ds))
                                            ELSE Zero]]

Enh_analyze_other_track(ds, track_name) ==
    LET symbols == [i \in 1..Len(ds) |-> Enh_track_mappings[track_name][ds[i]]]
        IsYang(x) == x \in Enh_yinyang_class[track_name].yang
        IsYin(x) == x \in Enh_yinyang_class[track_name].yin
        yang_count == Count(symbols, IsYang)
        yin_count == Count(symbols, IsYin)
    IN  [window_count |-> 0,
         symbol_pairs |-> EnhPairs(0, 0),
         digit_pairs |-> EnhPairs(0, 0),
         global_digit_pairs |-> Enh_analyze_global_pairs(ds, track_name),
         yinyang |-> [yang |-> yang_count,
                      yin |-> yin_count,
                      ratio |-> IF yin_count > 0 THEN Frac(yang_count, yin_count) ELSE Zero,
                      yang_percent |-> IF yang_count + yin_count > 0
                                       THEN Frac(yang_count, yang_count + yin_count)
                                       ELSE Zero]]

Enh_analyze_track(ds, track_name) ==
    IF track_name = "track1" THEN Enh_analyze_track1(ds)
    ELSE Enh_analyze_other_track(ds, track_name)

Enh_calculate_symmetry(forward, backward) ==
    LET pair_sim == FSub(One, FAbs(FSub(forward.symbol_pairs.ratio,
                                        backward.symbol_pairs.ratio)))
        global_sim == FSub(One, FAbs(FSub(forward.global_digit_pairs.ratio,
                                          backward.global_digit_pairs.ratio)))
        yang_sim == FSub(One, FAbs(FSub(forward.yinyang.yang_percent,
                                        backward.yinyang.yang_percent)))
    IN  [pair_similarity |-> pair_sim,
         global_similarity |-> global_sim,
         yang_similarity |-> yang_sim,
         overall |-> FDivInt(FAdd(FAdd(pair_sim, global_sim), yang_sim), 3)]

\* pairing score of a track: state pairing for track1, global pairing else
Enh_pair_score(entry, k) ==
    IF k = 1 THEN entry.forward.symbol_pairs.ratio
    ELSE entry.forward.global_digit_pairs.ratio

\* pair_score * 0.4 + symmetry * 0.4 + yang_score * 0.2
Enh_track_score(entry, k) ==
    FAdd(FAdd(FMul(Enh_pair_score(entry, k), Frac(2, 5)),
              FMul(entry.symmetry.overall, Frac(2, 5))),
         FMul(FSub(One, FMul(FAbs(FSub(entry.forward.yinyang.yang_percent, Frac(1, 2))),
                             Frac(2, 1))),
              Frac(1, 5)))

\* stable sort by descending score: the first maximum comes first, the last
\* minimum comes last
Enh_summary_of(results, scores) ==
    LET best == CHOOSE k \in 1..4 :
                    /\ \A j \in 1..4 : FLe(scores[j], scores[k])
                    /\ \A j \in 1..(k - 1) : FLt(scores[j], scores[k])
        worst == CHOOSE k \in 1..4 :
                    /\ \A j \in 1..4 : FLe(scores[k], scores[j])
                    /\ \A j \in (k + 1)..4 : FLt(scores[k], scores[j])
        entry(k) == [score |-> scores[k],
                     symmetry |-> results[k].symmetry.overall,
                     pairing |-> Enh_pair_score(results[k], k)]
    IN  [best_track |-> Tracks[best],
         worst_track |-> Tracks[worst],
         average_symmetry |->
             FDivInt(FAdd(FAdd(results[1].symmetry.overall, results[2].symmetry.overall),
                          FAdd(results[3].symmetry.overall, results[4].symmetry.overall)),
                     4),
         track_scores |-> [track1 |-> entry(1), track2 |-> entry(2),
                           track3 |-> entry(3), track4 |-> entry(4)]]

Enh_generate_summary(results) ==
    Enh_summary_of(results, [k \in 1..4 |-> Enh_track_score(results[k], k)] \o <<>>)

Enh_track_entry_of(forward_result, backward_result) ==
    [forward |-> forward_result,
     backward |-> backward_result,
     symmetry |-> Enh_calculate_symmetry(forward_result, backward_result)]

Enh_track_entry(ds, reversed_digits, track_name) ==
    Enh_track_entry_of(Enh_analyze_track(ds, track_name),
                       Enh_analyze_track(reversed_digits, track_name))

Enh_response(results) ==
    [op |-> "Enhanced.analyze",
     track1 |-> results[1],
     track2 |-> results[2],
     track3 |-> results[3],
     track4 |-> results[4],
     summary |-> Enh_generate_summary(results)]

\* a non-int element makes the range test raise, which the except clause
\* turns into an error dictionary as well
Enh_analyze(ds) ==
    IF \E i \in 1..Len(ds) :
           /\ \A j \in 1..(i - 1) : IsInt(ds[j]) /\ 0 <= ds[j] /\ ds[j] <= 9
           /\ ~IsInt(ds[i])
    THEN [op |-> "Enhanced.analyze", error |-> "exception"]
    ELSE IF \E i \in 1..Len(ds) : ~(0 <= ds[i] /\ ds[i] <= 9)
    THEN [op |-> "Enhanced.analyze", error |-> "invalid_digit"]
    ELSE Enh_response([k \in 1..4 |-> Enh_track_entry(ds, Reverse(ds), Tracks[k])] \o <<>>)

(***************************************************************************)
(* Exact comparison of sqrt(q) with a decimal threshold given in           *)
(* millionths: sqrt(n/d) < T/10^6  iff  n * 10^12 < T * T * d.  The        *)
(* products exceed 32-bit integers, so they are formed on little-endian    *)
(* decimal digit lists.                                                    *)
(***************************************************************************)
RECURSIVE ToDigits(_)
ToDigits(n) == IF n < 10 THEN <<n>> ELSE <<n % 10>> \o ToDigits(n \div 10)

RECURSIVE MulCarry(_, _, _, _)
MulCarry(ds, k, i, carry) ==
    IF i > Len(ds)
    THEN (IF carry = 0 THEN <<>> ELSE ToDigits(carry))
    ELSE LET v == ds[i] * k + carry
         IN  <<v % 10>> \o MulCarry(ds, k, i + 1, v \div 10)

MulSmall(ds, k) == MulCarry(ds, k, 1, 0)

RECURSIVE Strip(_)
Strip(ds) ==
    IF Len(ds) > 1 /\ ds[Len(ds)] = 0 THEN Strip(SubSeq(ds, 1, Len(ds) - 1)) ELSE ds

RECURSIVE LexLt(_, _, _)
LexLt(a, b, i) ==
    IF i = 0 THEN FALSE
    ELSE IF a[i] # b[i] THEN a[i] < b[i]
    ELSE LexLt(a, b, i - 1)

BigLt(x, y) ==
    LET a == Strip(x)
        b == Strip(y)
    IN  IF Len(a) # Len(b) THEN Len(a) < Len(b) ELSE LexLt(a, b, Len(a))

\* sqrt(q) < millionths / 10^6, for a rational q >= 0
SqrtLt(q, millionths) ==
    BigLt(<<0, 0, 0, 0, 0, 0, 0, 0, 0, 0, 0, 0>> \o ToDigits(q.num),
          MulSmall(MulSmall(ToDigits(millionths), millionths), q.den))

(***************************************************************************)
(* src/core_engine.py: FourDimNineHarmonyModel.                            *)
(***************************************************************************)
\* default of the constructor argument block_size
block_size == 4

\* digit -> (s, l, p, o)
attributes ==
    [d \in Digit |->
        CASE d = 0 -> <<0, 5, 0, 1>>
          [] d = 1 -> <<1, 1, 1, 1>>
          [] d = 2 -> <<1, 2, 1, 0>>
          [] d = 3 -> <<1, 3, 1, 1>>
          [] d = 4 -> <<1, 4, 0, 0>>
          [] d = 5 -> <<1, 5, 0, 1>>
          [] d = 6 -> <<1, 1, 1, 1>>
          [] d = 7 -> <<1, 2, 1, 0>>
          [] d = 8 -> <<0, 3, 1, 1>>
          [] d = 9 -> <<0, 4, 0, 0>>]

ab_matrix ==
    << <<0, 0, 1, 1, 0>>,
       <<0, 0, 1, 0, 1>>,
       <<1, 1, 0, 0, 0>>,
       <<1, 0, 0, 0, 1>>,
       <<0, 1, 0, 1, 0>> >>

\* Omega = raw_Omega * 1.5
omega_amplifier == Frac(3, 2)

get_state_id(bits) == IF bits \in DOMAIN state_encoding THEN state_encoding[bits] ELSE 0

get_size_bits(part) == [i \in 1..Len(part) |-> attributes[part[i]][1]]

get_position_bits(part) == [i \in 1..Len(part) |-> attributes[part[i]][3]]

get_parity_bits(part) == [i \in 1..Len(part) |-> attributes[part[i]][4]]

get_ab_bits(part) ==
    LET layers == [i \in 1..Len(part) |-> attributes[part[i]][2]]
    IN  << ab_matrix[layers[1]][layers[2]],
           ab_matrix[layers[2]][layers[3]],
           ab_matrix[layers[3]][layers[1]] >>

OmegaDims == <<"size", "position", "parity", "AB">>

get_bits(dim, part) ==
    CASE dim = "size" -> get_size_bits(part)
      [] dim = "position" -> get_position_bits(part)
      [] dim = "parity" -> get_parity_bits(part)
      [] dim = "AB" -> get_ab_bits(part)

\* a partition that keeps the short block at the end of the list
get_forward_blocks_keep_tail(ds, bs) ==
    IF Len(ds) = 0 THEN <<>>
    ELSE LET starts == {i \in 0..(Len(ds) - 1) : i % bs = 0}
         IN  [k \in 1..Cardinality(starts) |-> Slice(ds, bs * (k - 1), bs * k)]

\* range(0, len, bs), only the slices of full length are kept
get_forward_blocks(ds, bs) ==
    IF Len(ds) = 0 THEN <<>>
    ELSE LET starts == {i \in 0..(Len(ds) - 1) :
                            i % bs = 0 /\ Len(Slice(ds, i, i + bs)) = bs}
         IN  [k \in 1..Cardinality(starts) |-> Slice(ds, bs * (k - 1), bs * k)]

\* the forward partition listed last block first, blocks not reversed
get_backward_blocks_block_order(ds, bs) ==
    IF Len(ds) = 0 THEN <<>>
    ELSE Reverse(get_forward_blocks(ds, bs))

get_backward_blocks(ds, bs) ==
    IF Len(ds) = 0 THEN <<>>
    ELSE get_forward_blocks(Reverse(ds), bs)

\* the sequence diagnose_reverse_calculation generates when it gets None
default_test_sequence == Cyc(<<1, 2, 3, 4>>, 24)

\* blocks[0] if blocks else []
first_block(blocks) == IF blocks # <<>> THEN blocks[1] ELSE <<>>

\* backward_sample == forward_sample[::-1], for two non-empty samples
is_reversed_correctly(forward_sample, backward_sample) ==
    /\ forward_sample # <<>>
    /\ backward_sample # <<>>
    /\ backward_sample = Reverse(forward_sample)

\* the dictionary diagnose_reverse_calculation returns; the preview
\* test_sequence[:20] + ["..."] is the pair (shown, ellipsis)
reverse_diagnosis(test_sequence, forward_blocks, backward_blocks, now) ==
    [op |-> "diagnose_reverse_calculation",
     test_sequence |-> [shown |-> Slice(test_sequence, 0, 20),
                        ellipsis |-> Len(test_sequence) > 20],
     sequence_length |-> Len(test_sequence),
     forward_blocks_count |-> Len(forward_blocks),
     backward_blocks_count |-> Len(backward_blocks),
     forward_sample |-> first_block(forward_blocks),
     backward_sample |-> first_block(backward_blocks),
     is_reversed_correctly |->
         is_reversed_correctly(first_block(forward_blocks),
                               first_block(backward_blocks)),
     expected_backward |-> Reverse(first_block(forward_blocks)),
     \* the two diagnosis texts, in English
     diagnosis |->
         IF is_reversed_correctly(first_block(forward_blocks),
                                  first_block(backward_blocks))
         THEN "correct"
         ELSE "problem: backward grouping did not reverse the sequence",
     timestamp |-> now]

\* FourDimNineHarmonyModel.diagnose_reverse_calculation(test_sequence)
diagnose_reverse_calculation(test_sequence, now) ==
    reverse_diagnosis(test_sequence,
                      get_forward_blocks(test_sequence, block_size),
                      get_backward_blocks(test_sequence, block_size), now)

\* range(0, len - 11, 12)
get_blocks(seq) ==
    LET starts == {i \in 0..(Len(seq) - 12) : i % 12 = 0}
    IN  [k \in 1..Cardinality(starts) |-> Slice(seq, 12 * (k - 1), 12 * k)]

\* number of valid pairs of one block in one dimension
block_valid_pairs(block, dim) ==
    LET s1 == get_state_id(get_bits(dim, Slice(block, 0, 3)))
        s2 == get_state_id(get_bits(dim, Slice(block, 3, 6)))
        s3 == get_state_id(get_bits(dim, Slice(block, 6, 9)))
        s4 == get_state_id(get_bits(dim, Slice(block, 9, 12)))
    IN  (IF s1 > 0 /\ s3 > 0 /\ s1 + s3 = 9 THEN 1 ELSE 0)
      + (IF s2 > 0 /\ s4 > 0 /\ s2 + s4 = 9 THEN 1 ELSE 0)

calculate_R_for_dimension(blocks, dim) ==
    IF Len(blocks) = 0 THEN Zero
    ELSE Frac(SumSeq([k \in 1..Len(blocks) |-> block_valid_pairs(blocks[k], dim)]),
              2 * Len(blocks))

\* a dictionary lookup attributes[d] raises KeyError for d outside 0..9
RaisesKeyError(blocks) ==
    \E k \in 1..Len(blocks) : \E i \in 1..Len(blocks[k]) : blocks[k][i] \notin Digit

\* the sum of the values themselves, not of their squares
SumSquares_not_squared(deltas) ==
    FAdd(FAdd(deltas[1], deltas[2]), FAdd(deltas[3], deltas[4]))

SumSquares(deltas) ==
    FAdd(FAdd(FMul(deltas[1], deltas[1]), FMul(deltas[2], deltas[2])),
         FAdd(FMul(deltas[3], deltas[3]), FMul(deltas[4], deltas[4])))

\* a short list answered with a zero diagnosis instead of an error
too_short_response_zero(name) ==
    [op |-> name, Omega_sq |-> Zero, structure |-> "no_structure"]

\* the dictionary both engines return for a list shorter than 12
too_short_response(name) == [op |-> name, error |-> "too_short"]

\* the classification done with the FDJTMS benchmark thresholds
structure_tier_benchmark(Omega_sq) ==
    IF SqrtLt(Omega_sq, 40158) THEN 1
    ELSE IF SqrtLt(Omega_sq, 60237) THEN 2 ELSE 3

\* if Omega < 0.01 ... elif Omega < 0.15 ... else
structure_tier(Omega_sq) ==
    IF SqrtLt(Omega_sq, 10000) THEN 1
    ELSE IF SqrtLt(Omega_sq, 150000) THEN 2 ELSE 3

\* delta_R of one dimension
delta_R(forward_blocks, backward_blocks, dim) ==
    FAbs(FSub(calculate_R_for_dimension(forward_blocks, dim),
              calculate_R_for_dimension(backward_blocks, dim)))

\* the diagnosis built from Omega; Omega and raw_Omega are square roots and
\* the model carries their squares
diagnosis_of(ds, now, delta_R_values, raw_sq, Omega_sq, tier) ==
    [op |-> "calculate_Omega",
     timestamp |-> now,
     sequence_length |-> Len(ds),
     Omega_sq |-> Omega_sq,
     raw_Omega_sq |-> raw_sq,
     Delta_R |-> delta_R_values,
     structure |-> <<"no_structure", "weak_structure", "strong_structure">>[tier],
     health_status |-> <<"normal", "healthy", "cancerous">>[tier],
     amplifier |-> omega_amplifier]

\* Omega = raw_omega * omega_amplifier, then the structure decision
amplify_and_classify(ds, now, delta_R_values, raw_sq, Omega_sq) ==
    diagnosis_of(ds, now, delta_R_values, raw_sq, Omega_sq, structure_tier(Omega_sq))

Omega_of_deltas(ds, now, delta_R_values, raw_sq) ==
    amplify_and_classify(ds, now, delta_R_values, raw_sq,
                         FMul(raw_sq, FMul(omega_amplifier, omega_amplifier)))

Omega_of_blocks(ds, now, forward_blocks, backward_blocks) ==
    IF Len(forward_blocks) = 0 \/ Len(backward_blocks) = 0
    THEN [op |-> "calculate_Omega", error |-> "no_blocks"]
    ELSE IF RaisesKeyError(forward_blocks) \/ RaisesKeyError(backward_blocks)
    THEN [op |-> "calculate_Omega", raised |-> "KeyError"]
    ELSE LET delta_R_values ==
                 [k \in 1..4 |-> delta_R(forward_blocks, backward_blocks, OmegaDims[k])]
                 \o <<>>
         IN  Omega_of_deltas(ds, now, delta_R_values, SumSquares(delta_R_values))

\* an error dictionary that records when the call was made
calculate_Omega_dated_error(ds, now) ==
    IF Len(ds) < 12
    THEN [op |-> "calculate_Omega", error |-> "too_short", at |-> now]
    ELSE Omega_of_blocks(ds, now, get_blocks(ds), get_blocks(Reverse(ds)))

calculate_Omega(ds, now) ==
    IF Len(ds) < 12 THEN too_short_response("calculate_Omega")
    ELSE Omega_of_blocks(ds, now, get_blocks(ds), get_blocks(Reverse(ds)))

(***************************************************************************)
(* src/fd_jtms_v5.py: FDJTMS.  Its attributes and ab_matrix tables equal   *)
(* those of FourDimNineHarmonyModel.                                       *)
(***************************************************************************)
\* benchmark['weak_threshold'] = 0.040158, in millionths
weak_threshold == 40158

\* benchmark['strong_threshold'] = 0.060237, in millionths
strong_threshold == 60237

\* range(0, len - size + 1, step)
windows(ds, size, step) ==
    IF Len(ds) < size THEN <<>>
    ELSE LET starts == {i \in 0..(Len(ds) - size) : i % step = 0}
         IN  [k \in 1..Cardinality(starts) |->
                 Slice(ds, step * (k - 1), step * (k - 1) + size)]

state_id(bits) == IF bits \in DOMAIN state_encoding THEN state_encoding[bits] ELSE 0

ab_bits(part) == IF Len(part) # 3 THEN <<0, 0, 0>> ELSE get_ab_bits(part)

bit_func(dim, part) ==
    CASE dim = "size" -> get_size_bits(part)
      [] dim = "position" -> get_position_bits(part)
      [] dim = "parity" -> get_parity_bits(part)
      [] dim = "AB" -> ab_bits(part)

\* <<valid, total>> contributed by one window
window_pairs(w, dim) ==
    IF Len(w) # 12 THEN <<0, 0>>
    ELSE LET s1 == state_id(bit_func(dim, Slice(w, 0, 3)))
             s2 == state_id(bit_func(dim, Slice(w, 3, 6)))
             s3 == state_id(bit_func(dim, Slice(w, 6, 9)))
             s4 == state_id(bit_func(dim, Slice(w, 9, 12)))
         IN  << (IF s1 # 0 /\ s3 # 0 /\ s1 + s3 = 9 THEN 1 ELSE 0)
              + (IF s2 # 0 /\ s4 # 0 /\ s2 + s4 = 9 THEN 1 ELSE 0),
                (IF s1 # 0 /\ s3 # 0 THEN 1 ELSE 0)
              + (IF s2 # 0 /\ s4 # 0 THEN 1 ELSE 0) >>

R_value(ws, dim) ==
    IF Len(ws) = 0 THEN Zero
    ELSE LET pairs == [k \in 1..Len(ws) |-> window_pairs(ws[k], dim)]
             valid == SumSeq([k \in 1..Len(ws) |-> pairs[k][1]])
             total == SumSeq([k \in 1..Len(ws) |-> pairs[k][2]])
         IN  IF total > 0 THEN Frac(valid, total) ELSE Zero

\* results[name] of analyze
dimension_of(Rf, Rb) ==
    [R_forward |-> Rf, R_backward |-> Rb, delta |-> FAbs(FSub(Rf, Rb))]

dimension_result(fw, bw, dim) == dimension_of(R_value(fw, dim), R_value(bw, dim))

\* the structure decision and the returned dictionary
FDJTMS_response(ds, fw, results, Omega_sq) ==
    [op |-> "FDJTMS.analyze",
     length |-> Len(ds),
     windows |-> Len(fw),
     Omega_sq |-> Omega_sq,
     structure |-> IF SqrtLt(Omega_sq, weak_threshold) THEN "random"
                   ELSE IF SqrtLt(Omega_sq, strong_threshold) THEN "ordered"
                   ELSE "highly_ordered",
     dimensions |-> results,
     thresholds |-> [weak |-> weak_threshold, strong |-> strong_threshold]]

FDJTMS_Omega(ds, fw, results) ==
    FDJTMS_response(ds, fw, results,
                    SumSquares(<<results[1].delta, results[2].delta,
                                 results[3].delta, results[4].delta>>))

FDJTMS_of_windows(ds, fw, bw) ==
    IF Len(fw) = 0 \/ Len(bw) = 0
    THEN [op |-> "FDJTMS.analyze", error |-> "no_windows"]
    ELSE IF RaisesKeyError(fw) \/ RaisesKeyError(bw)
    THEN [op |-> "FDJTMS.analyze", raised |-> "KeyError"]
    ELSE FDJTMS_Omega(ds, fw,
                      [k \in 1..4 |-> dimension_result(fw, bw, OmegaDims[k])] \o <<>>)

FDJTMS_analyze(ds) ==
    IF Len(ds) < 12 THEN too_short_response("FDJTMS.analyze")
    ELSE FDJTMS_of_windows(ds, windows(ds, 12, 5), windows(Reverse(ds), 12, 5))

\* a diagnosis that lacks the time of the call
diagnosis_entry_untimed(r) ==
    [f \in DOMAIN r \ {"op"} |-> IF f = "timestamp" THEN 0 ELSE r[f]]

\* the diagnosis calculate_Omega appends: the dictionary it returns
diagnosis_entry(r) == [f \in DOMAIN r \ {"op"} |-> r[f]]

(***************************************************************************)
(* dna_encoder.py: DNAEncoder with the default 'triangle' scheme, and the  *)
(* DNAEncoder of src/dna_four_track_enhanced.py.  A string is the list of  *)
(* its characters.                                                         *)
(***************************************************************************)
Bases == {"A", "C", "G", "T"}

\* str.upper() on the characters that occur in the inputs
Upper(c) ==
    CASE c = "a" -> "A" [] c = "c" -> "C" [] c = "g" -> "G" [] c = "t" -> "T"
      [] OTHER -> c

NotBlank(c) == c # " "

\* seq.upper() with the blanks removed
normalized(dna_seq) == SelectSeq([i \in 1..Len(dna_seq) |-> Upper(dna_seq[i])], NotBlank)

has_invalid_base(seq) == \E i \in 1..Len(seq) : seq[i] \notin Bases

base_to_num == [b \in Bases |-> CASE b = "A" -> 0 [] b = "C" -> 1 [] b = "G" -> 2 [] b = "T" -> 3]

num_to_base == <<"A", "C", "G", "T">>

\* (small, large) -> code
triangle_encoding ==
    (<<0, 0>> :> 0) @@
    (<<0, 1>> :> 1) @@ (<<1, 1>> :> 4) @@
    (<<0, 2>> :> 2) @@ (<<1, 2>> :> 5) @@ (<<2, 2>> :> 7) @@
    (<<0, 3>> :> 3) @@ (<<1, 3>> :> 6) @@ (<<2, 3>> :> 8) @@ (<<3, 3>> :> 9)

code_to_pair ==
    [v \in {triangle_encoding[k] : k \in DOMAIN triangle_encoding} |->
        CHOOSE k \in DOMAIN triangle_encoding : triangle_encoding[k] = v]

get_pair_type(x, y) ==
    IF x = y THEN "homo"
    ELSE IF <<x, y>> \in {<<0, 3>>, <<3, 0>>} THEN "watson_crick_at"
    ELSE IF <<x, y>> \in {<<1, 2>>, <<2, 1>>} THEN "watson_crick_cg"
    ELSE "mismatch"

\* one step of the loop of _encode_triangle: the pair at i, i+1 (0-based)
\* or the single base left at the end of an odd string
triangle_step(dna_seq, i) ==
    IF i + 1 < Len(dna_seq)
    THEN LET n1 == base_to_num[dna_seq[i + 1]]
             n2 == base_to_num[dna_seq[i + 2]]
             small == IF n1 <= n2 THEN n1 ELSE n2
             large == IF n1 <= n2 THEN n2 ELSE n1
         IN  [code |-> triangle_encoding[<<small, large>>],
              flag |-> IF n1 <= n2 THEN "" ELSE "<-",
              pair_type |-> get_pair_type(small, large)]
    ELSE [code |-> base_to_num[dna_seq[i + 1]], flag |-> 0, pair_type |-> "single"]

encode_triangle_of(dna_seq, steps) ==
    [op |-> "DNAEncoder.encode",
     dna_sequence |-> dna_seq,
     encoded_digits |-> [k \in 1..Len(steps) |-> steps[k].code],
     direction_flags |-> [k \in 1..Len(steps) |-> steps[k].flag],
     encoding_details |-> [k \in 1..Len(steps) |-> [pair_type |-> steps[k].pair_type]],
     encoding_scheme |-> "triangle"]

encode_triangle(dna_seq) ==
    encode_triangle_of(dna_seq,
        [k \in 1..((Len(dna_seq) + 1) \div 2) |-> triangle_step(dna_seq, 2 * (k - 1))] \o <<>>)

\* DNAEncoder.encode of dna_encoder.py
DNA_encode(dna_sequence) ==
    IF has_invalid_base(normalized(dna_sequence))
    THEN [op |-> "DNAEncoder.encode", raised |-> "ValueError"]
    ELSE encode_triangle(normalized(dna_sequence))

\* the bases one encoded digit stands for
decode_digit(encoded_data, idx) ==
    IF encoded_data.encoding_details[idx].pair_type = "single"
    THEN <<num_to_base[encoded_data.encoded_digits[idx] + 1]>>
    ELSE IF encoded_data.direction_flags[idx] = "<-"
    THEN <<num_to_base[code_to_pair[encoded_data.encoded_digits[idx]][2] + 1],
           num_to_base[code_to_pair[encoded_data.encoded_digits[idx]][1] + 1]>>
    ELSE <<num_to_base[code_to_pair[encoded_data.encoded_digits[idx]][1] + 1],
           num_to_base[code_to_pair[encoded_data.encoded_digits[idx]][2] + 1]>>

RECURSIVE join_decoded(_, _)
join_decoded(encoded_data, idx) ==
    IF idx > Len(encoded_data.encoded_digits) THEN <<>>
    ELSE decode_digit(encoded_data, idx) \o join_decoded(encoded_data, idx + 1)

\* DNAEncoder.decode of dna_encoder.py
DNA_decode(encoded_data) == join_decoded(encoded_data, 1)

\* the enhanced encoder's one-step table of base pairs
basepair_to_num ==
    (<<"A", "A">> :> 0) @@ (<<"A", "C">> :> 1) @@ (<<"A", "G">> :> 2) @@
    (<<"A", "T">> :> 3) @@ (<<"C", "A">> :> 1) @@ (<<"C", "C">> :> 4) @@
    (<<"C", "G">> :> 5) @@ (<<"C", "T">> :> 6) @@ (<<"G", "A">> :> 2) @@
    (<<"G", "C">> :> 5) @@ (<<"G", "G">> :> 7) @@ (<<"G", "T">> :> 8) @@
    (<<"T", "A">> :> 3) @@ (<<"T", "C">> :> 6) @@ (<<"T", "G">> :> 8) @@
    (<<"T", "T">> :> 9)

num_to_basepair ==
    (0 :> <<"A", "A">>) @@ (1 :> <<"A", "C">>) @@ (2 :> <<"A", "G">>) @@
    (3 :> <<"A", "T">>) @@ (4 :> <<"C", "C">>) @@ (5 :> <<"C", "G">>) @@
    (6 :> <<"C", "T">>) @@ (7 :> <<"G", "G">>) @@ (8 :> <<"G", "T">>) @@
    (9 :> <<"T", "T">>)

\* _clean_sequence: an odd string loses its last base
Enh_clean_sequence(seq) ==
    IF Len(normalized(seq)) % 2 # 0
    THEN SubSeq(normalized(seq), 1, Len(normalized(seq)) - 1)
    ELSE normalized(seq)

Enh_encode_step(dna_seq, i) ==
    [position |-> i,
     bases |-> <<dna_seq[i + 1], dna_seq[i + 2]>>,
     code |-> basepair_to_num[<<dna_seq[i + 1], dna_seq[i + 2]>>],
     direction |-> IF <<dna_seq[i + 1], dna_seq[i + 2]>>
                          = num_to_basepair[basepair_to_num[<<dna_seq[i + 1], dna_seq[i + 2]>>]]
                   THEN "forward" ELSE "reverse"]

Enh_encode_of(dna_seq, details) ==
    [op |-> "Enhanced.DNAEncoder.encode",
     original |-> dna_seq,
     digits |-> [k \in 1..Len(details) |-> details[k].code],
     details |-> details]

Enh_encode_clean(dna_seq) ==
    Enh_encode_of(dna_seq,
        [k \in 1..(Len(dna_seq) \div 2) |-> Enh_encode_step(dna_seq, 2 * (k - 1))] \o <<>>)

\* DNAEncoder.encode of dna_four_track_enhanced.py
Enh_DNA_encode(dna_sequence) ==
    IF has_invalid_base(normalized(dna_sequence))
    THEN [op |-> "Enhanced.DNAEncoder.encode", raised |-> "ValueError"]
    ELSE Enh_encode_clean(Enh_clean_sequence(dna_sequence))

Enh_decode_detail(detail) ==
    IF detail.direction = "forward"
    THEN num_to_basepair[detail.code]
    ELSE <<num_to_basepair[detail.code][2], num_to_basepair[detail.code][1]>>

RECURSIVE Enh_join_decoded(_, _)
Enh_join_decoded(details, idx) ==
    IF idx > Len(details) THEN <<>>
    ELSE Enh_decode_detail(details[idx]) \o Enh_join_decoded(details, idx + 1)

\* DNAEncoder.decode of dna_four_track_enhanced.py
Enh_DNA_decode(encoded_data) == Enh_join_decoded(encoded_data.details, 1)

(***************************************************************************)
(* core/data: DataManager with its DataReader, DataWriter and              *)
(* CacheManager.  A string is the list of its characters.  `files` holds   *)
(* the files of data_dir; the current directory, where read_constant looks *)
(* second, holds no constant files.                                        *)
(***************************************************************************)
\* the cache lifetime, in seconds, of load_constant and encode_dna
expire_time == 3600

\* how many characters of the sequence enter encode_dna's cache key
key_prefix_len == 50

DigitChar == <<"0", "1", "2", "3", "4", "5", "6", "7", "8", "9">>

\* str(n) of a natural number
RECURSIVE str(_)
str(n) ==
    IF n < 10 THEN <<DigitChar[n + 1]>>
    ELSE str(n \div 10) \o <<DigitChar[(n % 10) + 1]>>

\* char.isdigit()
isdigit(c) == \E d \in Digit : DigitChar[d + 1] = c

\* int(char)
int(c) == CHOOSE d \in Digit : DigitChar[d + 1] = c

\* ''.join(map(str, digits))
RECURSIVE digits_str(_)
digits_str(ds) ==
    IF ds = <<>> THEN <<>> ELSE str(Head(ds)) \o digits_str(Tail(ds))

\* what write_constant writes: first digit, '.', the rest
constant_text_of(s) ==
    IF Len(s) > 1 THEN <<s[1], ".">> \o Tail(s) ELSE s

constant_text(ds) == constant_text_of(digits_str(ds))

dot_txt == <<".", "t", "x", "t">>

metadata_json ==
    <<"_", "m", "e", "t", "a", "d", "a", "t", "a", ".", "j", "s", "o", "n">>

\* file_patterns of read_constant, without the leading name
file_patterns ==
    << dot_txt,
       <<"_", "1", "0", "0", "k">> \o dot_txt,
       <<"_", "d", "i", "g", "i", "t", "s">> \o dot_txt,
       <<"_", "d", "i", "g", "i", "t", "s", "_", "1", "m">> \o dot_txt,
       <<"_", "h", "i", "g", "h", "_",
         "p", "r", "e", "c", "i", "s", "i", "o", "n">> \o dot_txt >>

\* the file names delete_constant removes, without the leading name
delete_patterns ==
    { dot_txt, metadata_json, file_patterns[2], file_patterns[3],
      file_patterns[5] }

\* d[key] = value
Put(d, key, value) ==
    [k \in (DOMAIN d) \cup {key} |-> IF k = key THEN value ELSE d[k]]

\* the dictionary without the given keys
Without(d, keys) == [k \in (DOMAIN d) \ keys |-> d[k]]

\* content.strip()
RECURSIVE strip(_)
strip(s) ==
    IF s = <<>> THEN s
    ELSE IF Head(s) = " " THEN strip(Tail(s))
    ELSE IF s[Len(s)] = " " THEN strip(SubSeq(s, 1, Len(s) - 1))
    ELSE s

NotSeparator(c) == c \notin {".", " ", ","}

\* the replace calls of _read_file
without_separators(content) ==
    IF \E i \in 1..Len(content) : content[i] = "."
    THEN SelectSeq(content, NotSeparator) ELSE content

digit_chars(content) == SelectSeq(without_separators(strip(content)), isdigit)

ints_of(chars) == [i \in 1..Len(chars) |-> int(chars[i])]

\* the loop of _read_file: the test against max_digits follows the append
read_file_of(all, max_digits) ==
    IF max_digits < 1 THEN Slice(all, 0, 1) ELSE Slice(all, 0, max_digits)

\* DataReader._read_file
read_file(content, max_digits) ==
    read_file_of(ints_of(digit_chars(content)), max_digits)

existing_patterns(fs, name) ==
    {i \in 1..Len(file_patterns) : (name \o file_patterns[i]) \in DOMAIN fs}

first_pattern(found) == CHOOSE i \in found : \A j \in found : i <= j

\* DataReader.read_constant
read_constant_of(fs, name, max_digits, found) ==
    IF found = {} THEN <<>>
    ELSE read_file(fs[name \o file_patterns[first_pattern(found)]], max_digits)

read_constant(fs, name, max_digits) ==
    read_constant_of(fs, name, max_digits, existing_patterns(fs, name))

\* DataWriter.write_constant without metadata
write_constant(fs, name, ds) == Put(fs, name \o dot_txt, constant_text(ds))

\* DataWriter.delete_constant
delete_constant(fs, name) ==
    Without(fs, {name \o p : p \in delete_patterns})

\* CacheManager._clean_expired
clean_expired(c, now) ==
    Without(c, {k \in DOMAIN c : c[k].expire > 0 /\ now > c[k].expire})

\* CacheManager.set
cache_set(c, now, key, value, expire) ==
    Put(c, key, [value |-> value,
                 expire |-> IF expire > 0 THEN now + expire ELSE 0])

\* 'if cached_data:' after CacheManager.get, on the cleaned cache
cache_hit(live, key) == key \in DOMAIN live /\ live[key].value # <<>>

\* fnmatch.fnmatch(key, f"{name}_*") for a name without wildcards
fnmatch(key, name) ==
    /\ Len(key) > Len(name)
    /\ SubSeq(key, 1, Len(name) + 1) = name \o <<"_">>

\* CacheManager.delete_pattern(f"{name}_*")
delete_pattern(c, name) == Without(c, {k \in DOMAIN c : fnmatch(k, name)})

\* DataManager._is_dna_sequence
is_dna_sequence(data) == \A i \in 1..Len(data) : Upper(data[i]) \in Bases

dna_cache_key(dna_sequence) ==
    <<"d", "n", "a", "_">> \o Slice(dna_sequence, 0, key_prefix_len)
        \o <<"_">> \o str(Len(dna_sequence))

encode_dna_miss(live, now, key, encoded) ==
    IF "raised" \in DOMAIN encoded
    THEN [raised |-> encoded.raised, cache |-> live]
    ELSE [value |-> encoded.encoded_digits,
          cache |-> IF encoded.encoded_digits # <<>>
                    THEN cache_set(live, now, key, encoded.encoded_digits,
                                   expire_time)
                    ELSE live]

encode_dna_of(live, now, key, dna_sequence) ==
    IF cache_hit(live, key) THEN [value |-> live[key].value, cache |-> live]
    ELSE encode_dna_miss(live, now, key, DNA_encode(dna_sequence))

\* DataManager.encode_dna: the returned value and the cache it leaves
encode_dna(c, now, dna_sequence) ==
    encode_dna_of(clean_expired(c, now), now, dna_cache_key(dna_sequence),
                  dna_sequence)

load_key(name, max_digits) == name \o <<"_">> \o str(max_digits)

load_miss(live, now, key, read) ==
    [value |-> read,
     cache |-> IF read # <<>> THEN cache_set(live, now, key, read, expire_time)
               ELSE live]

load_constant_of(fs, live, now, name, max_digits) ==
    IF cache_hit(live, load_key(name, max_digits))
    THEN [value |-> live[load_key(name, max_digits)].value, cache |-> live]
    ELSE load_miss(live, now, load_key(name, max_digits),
                   read_constant(fs, name, max_digits))

truncated(encoded, max_digits) ==
    [value |-> Slice(encoded.value, 0, max_digits), cache |-> encoded.cache]

\* DataManager.load_constant: the returned value and the cache it leaves
load_constant(fs, c, now, name, max_digits) ==
    IF is_dna_sequence(name)
    THEN truncated(encode_dna(c, now, name), max_digits)
    ELSE load_constant_of(fs, clean_expired(c, now), now, name, max_digits)

\* constant names: a plain one, one that ends in a file pattern of
\* read_constant, and one spelled with base letters only
DataNames ==
    { <<"e">>, <<"e", "_", "d", "i", "g", "i", "t", "s">>, <<"c", "a">> }

\* the digit lists a caller saves
SaveLists ==
    {Cyc(<<3, 1, 4>>, n) : n \in 0..MaxSaveLen}
        \cup {Cyc(<<2, 7>>, n) : n \in 1..MaxSaveLen}

\* a sequence of exactly key_prefix_len bases
LongPrefix == Cyc(<<"A", "C", "G", "T">>, key_prefix_len)

\* the sequences a caller passes to encode_dna
EncodeInputs ==
    {LongPrefix \o t : t \in (SeqsUpTo({"A", "C"}, MaxTailLen) \ {<<>>})}
        \cup {<<>>, <<"A", "C">>, <<"N">>}

\* CompositeAnalyzer.__init__: name -> class of the analyzer
DefaultAnalyzers ==
    [n \in {"four_track", "pattern", "statistical"} |->
        CASE n = "four_track" -> "FourTrackAnalyzer"
          [] n = "pattern" -> "PatternAnalyzer"
          [] n = "statistical" -> "StatisticalAnalyzer"]

\* a fresh data directory and cache, the analyzers of the constructor
Untouched ==
    /\ files = <<>>
    /\ cache = <<>>
    /\ saved = [n \in DataNames |-> <<>>]
    /\ analyzers = DefaultAnalyzers

\* digits that are partners of one another in the three rule tables
RuleDigits == {1, 2, 8, 9}

\* the lists on which the rule loop is run with its rules reordered
RuleInputs == SeqsUpTo(RuleDigits, MaxRuleLen) \cup Scenarios \cup PiInputs

\* orders of n rules, as lists of positions: the rotations of the declared
\* order, their reversals, and the declared order with two rules swapped
Rotation(n, r) == [i \in 1..n |-> ((i - 1 + r) % n) + 1]

Swap(n, a, b) == [i \in 1..n |-> IF i = a THEN b ELSE IF i = b THEN a ELSE i]

RuleOrders(n) ==
    {Rotation(n, r) : r \in 0..(n - 1)}
        \cup {Reverse(Rotation(n, r)) : r \in 0..(n - 1)}
        \cup {Swap(n, a, b) : a \in 1..n, b \in 1..n}

\* the rules listed in the given order
Reordered(rules, order) == [i \in 1..Len(rules) |-> rules[order[i]]]

\* names under which a caller registers or removes an analyzer
AnalyzerNames == {"four_track", "pattern", "statistical", "custom"}

\* the analyzer classes of core/analyzers
AnalyzerClasses ==
    {"FourTrackAnalyzer", "PatternAnalyzer", "StatisticalAnalyzer"}

\* lists for the composite analyzer with a changed registry: invalid
\* ones, and prefixes of the digits of pi
RegistryInputs ==
    {<<>>, <<10>>, <<NonInt, 1>>} \cup {SubSeq(pi_digits, 1, n) : n \in {1, 2, 12}}

(***************************************************************************)
(* Actions.  The engine instances are constructed, then entry points are   *)
(* called on the list, calls_left times in all.                            *)
(***************************************************************************)
\* _analyze_global_digit_pairs of core/analyzers on the list, for one of
\* the alphabet tracks
AnalyzeGlobalDigitPairs ==
    /\ calls_left > 0
    /\ calls_left' = calls_left - 1
    /\ \E k \in 2..4 :
           result' = [op |-> "_analyze_global_digit_pairs",
                      track_name |-> Tracks[k],
                      pairs |-> analyze_global_digit_pairs(digits, Tracks[k])]
    /\ UNCHANGED <<files, cache, saved, analyzers, digits, diagnosis_history,
                   clock>>

\* _analyze_global_pairs of dna_four_track_enhanced.py on the list
EnhAnalyzeGlobalPairs ==
    /\ calls_left > 0
    /\ calls_left' = calls_left - 1
    /\ \E k \in 2..4 :
           result' = [op |-> "_analyze_global_pairs",
                      track_name |-> Tracks[k],
                      pairs |-> Enh_analyze_global_pairs(digits, Tracks[k])]
    /\ UNCHANGED <<files, cache, saved, analyzers, digits, diagnosis_history,
                   clock>>

\* a caller invokes FourTrackAnalyzer.analyze on the list
FourTrackAnalyze ==
    /\ calls_left > 0
    /\ calls_left' = calls_left - 1
    /\ result' = analyze(digits)
    /\ UNCHANGED <<files, cache, saved, analyzers, digits, diagnosis_history, clock>>

\* a caller invokes the enhanced FourTrackAnalyzer.analyze on the list
EnhancedAnalyze ==
    /\ calls_left > 0
    /\ calls_left' = calls_left - 1
    /\ result' = Enh_analyze(digits)
    /\ UNCHANGED <<files, cache, saved, analyzers, digits, diagnosis_history, clock>>

\* time passes before a call
Tick ==
    /\ calls_left > 0
    /\ clock < MaxClock
    /\ clock' = clock + 1
    /\ UNCHANGED <<files, cache, saved, analyzers, digits, result, diagnosis_history, calls_left>>

\* FourDimNineHarmonyModel.calculate_Omega: a diagnosis is also appended to
\* diagnosis_history
CalculateOmega ==
    /\ calls_left > 0
    /\ calls_left' = calls_left - 1
    /\ result' = calculate_Omega(digits, clock)
    /\ diagnosis_history' =
           IF "Omega_sq" \in DOMAIN result'
           THEN Append(diagnosis_history, diagnosis_entry(result'))
           ELSE diagnosis_history
    /\ UNCHANGED <<files, cache, saved, analyzers, digits, clock>>

FDJTMSAnalyze ==
    /\ calls_left > 0
    /\ calls_left' = calls_left - 1
    /\ result' = FDJTMS_analyze(digits)
    /\ UNCHANGED <<files, cache, saved, analyzers, digits, diagnosis_history, clock>>

\* get_forward_blocks with the default block size or with 12
GetForwardBlocks ==
    /\ calls_left > 0
    /\ calls_left' = calls_left - 1
    /\ \E bs \in {block_size, 12} :
           result' = [op |-> "get_forward_blocks", block_size |-> bs,
                      blocks |-> get_forward_blocks(digits, bs)]
    /\ UNCHANGED <<files, cache, saved, analyzers, digits, diagnosis_history, clock>>

\* a caller invokes diagnose_reverse_calculation, on the list or without
\* an argument
DiagnoseReverse ==
    /\ calls_left > 0
    /\ calls_left' = calls_left - 1
    /\ \E test_sequence \in {digits, default_test_sequence} :
           result' = diagnose_reverse_calculation(test_sequence, clock)
    /\ UNCHANGED <<files, cache, saved, analyzers, digits, diagnosis_history,
                   clock>>

\* _get_blocks, the partition calculate_Omega cuts
GetBlocks ==
    /\ calls_left > 0
    /\ calls_left' = calls_left - 1
    /\ result' = [op |-> "_get_blocks", blocks |-> get_blocks(digits)]
    /\ UNCHANGED <<files, cache, saved, analyzers, digits, diagnosis_history, clock>>

GetBackwardBlocks ==
    /\ calls_left > 0
    /\ calls_left' = calls_left - 1
    /\ \E bs \in {block_size, 12} :
           result' = [op |-> "get_backward_blocks", block_size |-> bs,
                      blocks |-> get_backward_blocks(digits, bs)]
    /\ UNCHANGED <<files, cache, saved, analyzers, digits, diagnosis_history, clock>>

\* FDJTMS.windows with its default size 12 and step 5
Windows ==
    /\ calls_left > 0
    /\ calls_left' = calls_left - 1
    /\ result' = [op |-> "windows", windows |-> windows(digits, 12, 5)]
    /\ UNCHANGED <<files, cache, saved, analyzers, digits, diagnosis_history, clock>>

\* calculate_R_for_dimension on the forward or the backward block series
CalculateR ==
    /\ calls_left > 0
    /\ calls_left' = calls_left - 1
    /\ \E k \in 1..4, dir \in {"forward", "backward"} :
           LET blocks == IF dir = "forward" THEN get_blocks(digits)
                         ELSE get_blocks(Reverse(digits))
           IN  result' =
                   IF RaisesKeyError(blocks)
                   THEN [op |-> "calculate_R_for_dimension", raised |-> "KeyError"]
                   ELSE [op |-> "calculate_R_for_dimension", dim |-> OmegaDims[k],
                         direction |-> dir,
                         R |-> calculate_R_for_dimension(blocks, OmegaDims[k])]
    /\ UNCHANGED <<files, cache, saved, analyzers, digits, diagnosis_history, clock>>

\* diagnose(data) with a list: calculate_Omega inside try/except
diagnose_of(r) ==
    IF "raised" \in DOMAIN r
    THEN [op |-> "diagnose", diagnosis_type |-> "Omega_analysis",
          error |-> r.raised, success |-> FALSE]
    ELSE [op |-> "diagnose", diagnosis_type |-> "Omega_analysis",
          result |-> diagnosis_entry(r), success |-> TRUE]

diagnose_list(ds, now) == diagnose_of(calculate_Omega(ds, now))

\* diagnose() without data: the status of the model
diagnose_status(history) ==
    [op |-> "diagnose", model |-> "FourDimNineHarmonyModel", version |-> "2.0",
     status |-> "ready", diagnosis_count |-> Len(history),
     block_size |-> block_size]

\* FourDimNineHarmonyModel.diagnose on the list
Diagnose ==
    /\ calls_left > 0
    /\ calls_left' = calls_left - 1
    /\ result' = diagnose_list(digits, clock)
    /\ diagnosis_history' =
           IF result'.success /\ "Omega_sq" \in DOMAIN result'.result
           THEN Append(diagnosis_history, result'.result)
           ELSE diagnosis_history
    /\ UNCHANGED <<files, cache, saved, analyzers, digits, clock>>

\* FourDimNineHarmonyModel.diagnose without data
DiagnoseStatus ==
    /\ calls_left > 0
    /\ calls_left' = calls_left - 1
    /\ result' = diagnose_status(diagnosis_history)
    /\ UNCHANGED <<files, cache, saved, analyzers, digits, diagnosis_history, clock>>

\* FourTrackAnalyzer._binary_to_state_id on the list taken as a bit string
BinaryToStateId ==
    /\ calls_left > 0
    /\ calls_left' = calls_left - 1
    /\ Len(digits) <= MaxBitsLen
    /\ result' = [op |-> "binary_to_state_id", bits |-> digits,
                  state_id |-> binary_to_state_id(digits)]
    /\ UNCHANGED <<files, cache, saved, analyzers, digits, diagnosis_history, clock>>

\* FourDimNineHarmonyModel.get_state_id on the list taken as a bit tuple
GetStateId ==
    /\ calls_left > 0
    /\ calls_left' = calls_left - 1
    /\ Len(digits) <= MaxBitsLen
    /\ result' = [op |-> "get_state_id", bits |-> digits,
                  state_id |-> get_state_id(digits)]
    /\ UNCHANGED <<files, cache, saved, analyzers, digits, diagnosis_history, clock>>

InitFT ==
    /\ Untouched
    /\ digits \in FTInputs
    /\ result = None
    /\ diagnosis_history = <<>>
    /\ clock = 0
    /\ calls_left = 1

NextFT ==
    \/ AnalyzeGlobalDigitPairs
    \/ EnhAnalyzeGlobalPairs
    \/ FourTrackAnalyze
    \/ EnhancedAnalyze
    \/ CalculateR
    \/ BinaryToStateId
    \/ GetStateId

SpecFT == InitFT /\ [][NextFT]_vars

InitOmega ==
    /\ Untouched
    /\ digits \in OmegaInputs
    /\ result = None
    /\ diagnosis_history = <<>>
    /\ clock = 0
    /\ calls_left = 1

NextOmega ==
    \/ DiagnoseReverse
    \/ Tick
    \/ CalculateOmega
    \/ FDJTMSAnalyze
    \/ GetForwardBlocks
    \/ GetBackwardBlocks
    \/ GetBlocks
    \/ Windows
    \/ CalculateR

SpecOmega == InitOmega /\ [][NextOmega]_vars

\* a caller invokes CompositeAnalyzer.analyze on the list
CompositeAnalyze ==
    /\ calls_left > 0
    /\ calls_left' = calls_left - 1
    /\ result' = Composite_analyze_registry(analyzers, digits)
    /\ UNCHANGED <<files, cache, saved, analyzers, digits, diagnosis_history, clock>>

NextComposite == CompositeAnalyze

SpecComposite == InitFT /\ [][NextComposite]_vars

\* a caller invokes CompositeAnalyzer.add_analyzer(name, analyzer)
AddAnalyzer ==
    /\ calls_left > 0
    /\ calls_left' = calls_left - 1
    /\ \E name \in AnalyzerNames, class \in AnalyzerClasses :
        /\ analyzers' = Put(analyzers, name, class)
        /\ result' = [op |-> "add_analyzer", name |-> name]
    /\ UNCHANGED <<files, cache, saved, digits, diagnosis_history, clock>>

\* a caller invokes CompositeAnalyzer.remove_analyzer(name)
RemoveAnalyzer ==
    /\ calls_left > 0
    /\ calls_left' = calls_left - 1
    /\ \E name \in AnalyzerNames :
        /\ analyzers' = IF name \in DOMAIN analyzers
                        THEN Without(analyzers, {name}) ELSE analyzers
        /\ result' = [op |-> "remove_analyzer", name |-> name]
    /\ UNCHANGED <<files, cache, saved, digits, diagnosis_history, clock>>

InitRegistry ==
    /\ Untouched
    /\ digits \in RegistryInputs
    /\ result = None
    /\ diagnosis_history = <<>>
    /\ clock = 0
    /\ calls_left = MaxRegistryCalls

NextRegistry ==
    \/ AddAnalyzer
    \/ RemoveAnalyzer
    \/ CompositeAnalyze

SpecRegistry == InitRegistry /\ [][NextRegistry]_vars

\* several calls in a row on the same engine instances
InitSession ==
    /\ Untouched
    /\ digits \in SessionInputs
    /\ result = None
    /\ diagnosis_history = <<>>
    /\ clock = 0
    /\ calls_left = MaxCalls

NextSession ==
    \/ Tick
    \/ FourTrackAnalyze
    \/ CalculateOmega
    \/ FDJTMSAnalyze
    \/ Diagnose
    \/ DiagnoseStatus

SpecSession == InitSession /\ [][NextSession]_vars

\* DNAEncoder.encode of dna_encoder.py on the string
TriangleEncode ==
    /\ calls_left > 0
    /\ result = None
    /\ calls_left' = calls_left - 1
    /\ result' = DNA_encode(digits)
    /\ UNCHANGED <<files, cache, saved, analyzers, digits, diagnosis_history, clock>>

\* DNAEncoder.decode of dna_encoder.py on what encode returned
TriangleDecode ==
    /\ calls_left > 0
    /\ result.op = "DNAEncoder.encode"
    /\ "raised" \notin DOMAIN result
    /\ calls_left' = calls_left - 1
    /\ result' = [op |-> "DNAEncoder.decode", decoded |-> DNA_decode(result)]
    /\ UNCHANGED <<files, cache, saved, analyzers, digits, diagnosis_history, clock>>

\* DNAEncoder.encode of dna_four_track_enhanced.py on the string
EnhancedEncode ==
    /\ calls_left > 0
    /\ result = None
    /\ calls_left' = calls_left - 1
    /\ result' = Enh_DNA_encode(digits)
    /\ UNCHANGED <<files, cache, saved, analyzers, digits, diagnosis_history, clock>>

\* DNAEncoder.decode of dna_four_track_enhanced.py on what encode returned
EnhancedDecode ==
    /\ calls_left > 0
    /\ result.op = "Enhanced.DNAEncoder.encode"
    /\ "raised" \notin DOMAIN result
    /\ calls_left' = calls_left - 1
    /\ result' = [op |-> "Enhanced.DNAEncoder.decode",
                  decoded |-> Enh_DNA_decode(result)]
    /\ UNCHANGED <<files, cache, saved, analyzers, digits, diagnosis_history, clock>>

\* a string is encoded, then the encoding is decoded
InitDNA ==
    /\ Untouched
    /\ digits \in DnaInputs
    /\ result = None
    /\ diagnosis_history = <<>>
    /\ clock = 0
    /\ calls_left = 2

NextDNA ==
    \/ TriangleEncode
    \/ TriangleDecode
    \/ EnhancedEncode
    \/ EnhancedDecode

SpecDNA == InitDNA /\ [][NextDNA]_vars

\* a caller invokes DataManager.save_constant(name, digits)
SaveConstant ==
    /\ calls_left > 0
    /\ calls_left' = calls_left - 1
    /\ \E name \in DataNames, ds \in SaveLists :
        /\ files' = write_constant(files, name, ds)
        /\ cache' = delete_pattern(cache, name)
        /\ saved' = [saved EXCEPT ![name] = ds]
        /\ result' = [op |-> "save_constant", name |-> name, success |-> TRUE]
    /\ UNCHANGED <<analyzers, digits, diagnosis_history, clock>>

\* a caller invokes DataManager.delete_constant(name)
DeleteConstant ==
    /\ calls_left > 0
    /\ calls_left' = calls_left - 1
    /\ \E name \in DataNames :
        /\ files' = delete_constant(files, name)
        /\ cache' = delete_pattern(cache, name)
        /\ saved' = [saved EXCEPT ![name] = <<>>]
        /\ result' = [op |-> "delete_constant", name |-> name,
                      success |-> TRUE]
    /\ UNCHANGED <<analyzers, digits, diagnosis_history, clock>>

\* a caller invokes DataManager.load_constant(name, max_digits)
LoadConstant ==
    /\ calls_left > 0
    /\ calls_left' = calls_left - 1
    /\ \E name \in DataNames, max_digits \in 0..MaxDigits :
        /\ cache' = load_constant(files, cache, clock, name, max_digits).cache
        /\ result' = [op |-> "load_constant", name |-> name,
                      max_digits |-> max_digits,
                      digits |-> load_constant(files, cache, clock, name,
                                               max_digits).value]
    /\ UNCHANGED <<files, saved, analyzers, digits, diagnosis_history, clock>>

\* a caller invokes DataManager.encode_dna(dna_sequence)
EncodeDna ==
    /\ calls_left > 0
    /\ calls_left' = calls_left - 1
    /\ \E s \in EncodeInputs :
        /\ cache' = encode_dna(cache, clock, s).cache
        /\ result' =
            IF "raised" \in DOMAIN encode_dna(cache, clock, s)
            THEN [op |-> "encode_dna", dna_sequence |-> s,
                  raised |-> encode_dna(cache, clock, s).raised]
            ELSE [op |-> "encode_dna", dna_sequence |-> s,
                  digits |-> encode_dna(cache, clock, s).value]
    /\ UNCHANGED <<files, saved, analyzers, digits, diagnosis_history, clock>>

\* more than the cache lifetime passes between two calls
WaitExpiry ==
    /\ calls_left > 0
    /\ clock < MaxClock * (expire_time + 1)
    /\ clock' = clock + expire_time + 1
    /\ UNCHANGED <<files, cache, saved, analyzers, digits, result,
                   diagnosis_history, calls_left>>

InitData ==
    /\ Untouched
    /\ digits = <<>>
    /\ result = None
    /\ diagnosis_history = <<>>
    /\ clock = 0
    /\ calls_left = MaxDataCalls

NextData ==
    \/ SaveConstant
    \/ DeleteConstant
    \/ LoadConstant
    \/ EncodeDna
    \/ WaitExpiry

SpecData == InitData /\ [][NextData]_vars

\* the rule loop of _analyze_global_digit_pairs runs on the list with the
\* rules of an alphabet track evaluated in another order
PairInOrder ==
    /\ calls_left > 0
    /\ calls_left' = calls_left - 1
    /\ \E k \in 2..4 : \E order \in RuleOrders(Len(pair_rules(Tracks[k]))) :
           result' = [op |-> "global_pairing",
                      track_name |-> Tracks[k],
                      order |-> order,
                      pairs |-> global_pairing(
                                    digits,
                                    Reordered(pair_rules(Tracks[k]), order))]
    /\ UNCHANGED <<files, cache, saved, analyzers, digits, diagnosis_history,
                   clock>>

InitRules ==
    /\ Untouched
    /\ digits \in RuleInputs
    /\ result = None
    /\ diagnosis_history = <<>>
    /\ clock = 0
    /\ calls_left = 1

NextRules == PairInOrder

SpecRules == InitRules /\ [][NextRules]_vars

(***************************************************************************)
(* Properties.                                                             *)
(***************************************************************************)
IsFT == result.op = "FourTrackAnalyzer.analyze"
IsEnh == result.op = "Enhanced.analyze"
HasError == "error" \in DOMAIN result
HasInvalidElement == \E i \in 1..Len(digits) : ~(IsInt(digits[i]) /\ digits[i] \in Digit)
Directions == {"forward", "backward"}

\* C1: FourTrackAnalyzer.analyze on a list with an element that is not an
\* integer in 0..9 returns an error result whose track1..track4 and
\* direct_pairing entries are all empty, and does not raise.
C1_InvalidInputRejected ==
    (IsFT /\ HasInvalidElement) =>
        /\ HasError
        /\ "raised" \notin DOMAIN result
        /\ \A t \in {"track1", "track2", "track3", "track4", "direct_pairing"} :
               result[t] = <<>>

\* a list that mixes valid digits with an invalid element was rejected whole
C1_Witness ==
    /\ IsFT
    /\ HasInvalidElement
    /\ \E i \in 1..Len(digits) : IsInt(digits[i]) /\ digits[i] \in Digit
    /\ HasError

\* C2 as stated: for a valid list shorter than 12, every track's
\* PairingResults (state pairing and global pairing, both directions) are
\* all zero.
C2_ShortAllZero ==
    (IsFT /\ ~HasError /\ Len(digits) < 12) =>
        \A t \in {"track1", "track2", "track3", "track4"}, d \in Directions :
            /\ result[t][d].symbol_pairs = ZeroPairs
            /\ result[t][d].global_digit_pairs.valid_pairs = 0
            /\ result[t][d].global_digit_pairs.total_pairs = 0
            /\ result[t][d].global_digit_pairs.pair_ratio = Zero

\* C2 amended: for a valid list shorter than 12, analyze returns a result
\* (no error, no exception); the per-window state pairing of every track
\* and the global pairing of track1 are all zero; the global pairing of
\* tracks 2-4 is all zero only for a list of one digit and otherwise has
\* total_pairs = floor(N/2), 0 <= valid_pairs <= total_pairs and
\* pair_ratio = valid_pairs / total_pairs.
C2_ShortSequences ==
    (IsFT /\ ~HasInvalidElement /\ Len(digits) > 0 /\ Len(digits) < 12) =>
        /\ ~HasError
        /\ \A t \in {"track1", "track2", "track3", "track4"}, d \in Directions :
               /\ result[t][d].symbol_pairs = ZeroPairs
               /\ result[t][d].window_count = 0
        /\ \A d \in Directions :
               /\ result.track1[d].global_digit_pairs.valid_pairs = 0
               /\ result.track1[d].global_digit_pairs.total_pairs = 0
               /\ result.track1[d].global_digit_pairs.pair_ratio = Zero
        /\ \A t \in {"track2", "track3", "track4"}, d \in Directions :
               LET g == result[t][d].global_digit_pairs
               IN  /\ g.total_pairs = (IF Len(digits) < 2 THEN 0 ELSE Len(digits) \div 2)
                   /\ 0 <= g.valid_pairs /\ g.valid_pairs <= g.total_pairs
                   /\ g.pair_ratio = (IF g.total_pairs = 0 THEN Zero
                                      ELSE Frac(g.valid_pairs, g.total_pairs))

\* a list of valid digits too short for a window was analysed and its
\* alphabet tracks found pairs
C2_Witness ==
    /\ IsFT
    /\ ~HasError
    /\ Len(digits) >= 2 /\ Len(digits) < 12
    /\ result.track1.forward.symbol_pairs = ZeroPairs
    /\ \E t \in {"track2", "track3", "track4"} :
           result[t].forward.global_digit_pairs.valid_pairs > 0

C4_BackwardBlocks ==
    (result.op = "get_backward_blocks") =>
        LET B == result.block_size
            N == Len(digits)
        IN  /\ Len(result.blocks) = N \div B
            /\ \A k \in 0..(N \div B - 1) :
                   /\ Len(result.blocks[k + 1]) = B
                   /\ \A j \in 1..B :
                          result.blocks[k + 1][j] = digits[N - B * k - j + 1]

\* two or more backward blocks of 12 were cut from a list that is not a
\* whole number of blocks long and whose blocks differ from the forward ones
C4_Witness ==
    /\ result.op = "get_backward_blocks"
    /\ result.block_size = 12
    /\ Len(result.blocks) >= 2
    /\ Len(digits) % 12 # 0
    /\ result.blocks # get_forward_blocks(digits, 12)
    /\ result.blocks # Reverse(get_forward_blocks(digits, 12))

\* the sequence a direction analyses
Directed(d) == IF d = "forward" THEN digits ELSE Reverse(digits)

\* C5: in sliding mode every engine uses window length 12 and stride 5 and
\* keeps only full windows, so a list of N >= 12 digits yields exactly
\* floor((N - 12) / 5) + 1 windows, window k being seq[5k : 5k + 12].
C5_SlidingWindows ==
    /\ (IsFT \/ IsEnh) /\ ~HasError /\ Len(digits) >= 12 =>
           \A d \in Directions :
               result.track1[d].window_count = (Len(digits) - 12) \div 5 + 1
    /\ result.op = "windows" /\ Len(digits) >= 12 =>
           /\ Len(result.windows) = (Len(digits) - 12) \div 5 + 1
           /\ \A k \in 0..(Len(result.windows) - 1) :
                  result.windows[k + 1] = Slice(digits, 5 * k, 5 * k + 12)

\* StateId of a three-bit pattern: 111 is 1, 110 is 2, ..., 000 is 8
StateIdOf(bits) == 8 - (4 * bits[1] + 2 * bits[2] + bits[3])

\* the (block, dimension, pair) triples of a block series whose two
\* StateIds sum to 9; Bits(k, part) are the bits of a 3-digit part in
\* dimension k
NineSumTriples(seq, starts, Bits(_, _)) ==
    {t \in starts \X (1..4) \X {0, 1} :
        StateIdOf(Bits(t[2], Slice(seq, t[1] + 3 * t[3], t[1] + 3 * t[3] + 3)))
      + StateIdOf(Bits(t[2], Slice(seq, t[1] + 3 * t[3] + 6, t[1] + 3 * t[3] + 9)))
      = 9}

FTBits(k, part) == [i \in 1..Len(part) |-> number_attributes[part[i]][Dimensions[k]]]

EngineBits(k, part) == get_bits(OmegaDims[k], part)

\* C6: for the attribute track every 12-digit block contributes two pairing
\* attempts per dimension (part1 with part3, part2 with part4), an attempt
\* is valid iff the two StateIds sum to 9, and the result sums over all
\* blocks and all four dimensions: total_pairs = 8 * blocks and valid_pairs
\* is the number of (block, dimension, pair) triples summing to 9.  For
\* calculate_R_for_dimension the ratio of one dimension is the number of
\* its valid (block, pair) couples over 2 * blocks.
C6_AttributeTrackPairs ==
    /\ IsFT /\ ~HasError =>
           \A d \in Directions :
               LET r == result.track1[d]
                   starts == 0..(r.window_count - 1)
               IN  /\ r.symbol_pairs.total_pairs = 8 * r.window_count
                   /\ r.symbol_pairs.valid_pairs =
                          Cardinality(NineSumTriples(Directed(d), starts, FTBits))
    /\ IsEnh /\ ~HasError =>
           \A d \in Directions :
               LET r == result.track1[d]
                   starts == {5 * w : w \in 0..(r.window_count - 1)}
               IN  /\ r.symbol_pairs.total = 8 * r.window_count
                   /\ r.symbol_pairs.valid =
                          Cardinality(NineSumTriples(Directed(d), starts, FTBits))
    /\ result.op = "calculate_R_for_dimension" /\ "R" \in DOMAIN result =>
           LET blocks == Len(digits) \div 12
               starts == {12 * b : b \in 0..(blocks - 1)}
               k == CHOOSE j \in 1..4 : OmegaDims[j] = result.dim
               valid == {t \in NineSumTriples(Directed(result.direction), starts, EngineBits) :
                            t[2] = k}
           IN  result.R = IF blocks = 0 THEN Zero
                          ELSE Frac(Cardinality(valid), 2 * blocks)

\* several windows were paired, some attempts valid and some not
C6_Witness ==
    /\ IsFT
    /\ ~HasError
    /\ result.track1.forward.window_count >= 2
    /\ result.track1.forward.symbol_pairs.valid_pairs > 0
    /\ result.track1.forward.symbol_pairs.valid_pairs
           < result.track1.forward.symbol_pairs.total_pairs

\* the rule loop as stated: pairs found so far and the remaining multiset
RECURSIVE GreedyPairs(_, _, _, _)
GreedyPairs(rules, i, remaining, found) ==
    IF i > Len(rules) THEN found
    ELSE LET a == rules[i].d1
             b == rules[i].d2
             n == IF a = b THEN remaining[a] \div 2 ELSE Min(remaining[a], remaining[b])
         IN  GreedyPairs(rules, i + 1,
                         [x \in DOMAIN remaining |->
                             remaining[x] - (IF x = a THEN n ELSE 0) - (IF x = b THEN n ELSE 0)],
                         found + n)

Occurrences(seq) == [x \in Digit |-> Cardinality({i \in 1..Len(seq) : seq[i] = x})]

\* C7: for an alphabet track on N digits, valid_pairs is the sum over the
\* rules in declared order of min(remaining[d1], remaining[d2]) (or
\* floor(remaining[d] / 2) for an equal-digit rule), the consumed digits
\* being subtracted before the next rule; total_pairs = floor(N / 2) and
\* ratio = valid_pairs / total_pairs, 0 when total_pairs = 0.
C7_GlobalPairing ==
    /\ IsFT /\ ~HasError /\ Len(digits) >= 2 =>
           \A t \in {"track2", "track3", "track4"}, d \in Directions :
               LET g == result[t][d].global_digit_pairs
                   v == GreedyPairs(pair_rules(t), 1, Occurrences(Directed(d)), 0)
               IN  /\ g.valid_pairs = v
                   /\ g.total_pairs = Len(digits) \div 2
                   /\ g.pair_ratio = Frac(v, Len(digits) \div 2)
    /\ IsEnh /\ ~HasError =>
           \A t \in {"track2", "track3", "track4"}, d \in Directions :
               LET g == result[t][d].global_digit_pairs
                   v == GreedyPairs(pair_rules(t), 1, Occurrences(Directed(d)), 0)
               IN  /\ g.valid = v
                   /\ g.total = Len(digits) \div 2
                   /\ g.ratio = IF Len(digits) \div 2 = 0 THEN Zero
                                ELSE Frac(v, Len(digits) \div 2)

\* a list whose digits pair up only in part under the rules of track2
C7_Witness ==
    /\ IsFT
    /\ ~HasError
    /\ result.track2.forward.global_digit_pairs.valid_pairs > 0
    /\ result.track2.forward.global_digit_pairs.valid_pairs
           < result.track2.forward.global_digit_pairs.total_pairs
    /\ Len(digits) % 2 = 1

Mean2(a, b) == FDivInt(FAdd(a, b), 2)

Mean3(a, b, c) == FDivInt(FAdd(FAdd(a, b), c), 3)

\* C8: the symmetry score of track1 is the mean of exactly two terms, the
\* state-pairing-ratio similarity and the yang-percent similarity (the
\* global-pairing similarity is omitted, not counted as a third term); for
\* tracks 2-4 it is the mean of all three terms.
C8_SymmetryTerms ==
    /\ IsFT /\ ~HasError =>
           /\ LET y == result.track1.symmetry
              IN  y.overall_symmetry =
                      Mean2(y.pair_ratio_similarity, y.yang_percent_similarity)
           /\ \A t \in {"track2", "track3", "track4"} :
                  LET y == result[t].symmetry
                  IN  y.overall_symmetry =
                          Mean3(y.pair_ratio_similarity, y.global_ratio_similarity,
                                y.yang_percent_similarity)
    /\ IsEnh /\ ~HasError =>
           /\ LET y == result.track1.symmetry
              IN  y.overall = Mean2(y.pair_similarity, y.yang_similarity)
           /\ \A t \in {"track2", "track3", "track4"} :
                  LET y == result[t].symmetry
                  IN  y.overall = Mean3(y.pair_similarity, y.global_similarity,
                                        y.yang_similarity)

IsOmegaResult ==
    /\ result.op \in {"calculate_Omega", "FDJTMS.analyze"}
    /\ "Omega_sq" \in DOMAIN result

\* the four Delta R values of an Omega result
DeltaR(i) ==
    IF result.op = "calculate_Omega" THEN result.Delta_R[i]
    ELSE result.dimensions[i].delta

\* sum of the squares of the four Delta R values
NormSq ==
    FAdd(FAdd(FMul(DeltaR(1), DeltaR(1)), FMul(DeltaR(2), DeltaR(2))),
         FAdd(FMul(DeltaR(3), DeltaR(3)), FMul(DeltaR(4), DeltaR(4))))

\* C9 as stated: the reported Omega is exactly sqrt(sum of Delta R_i^2), with
\* no further scaling (stated on the squares).
C9_OmegaIsNorm == IsOmegaResult => result.Omega_sq = NormSq

\* C9 amended: FDJTMS.analyze reports Omega = sqrt(sum of Delta R_i^2) with
\* Delta R_i = |R_forward - R_backward|; FourDimNineHarmonyModel reports
\* that norm as raw_Omega and reports Omega = 1.5 * raw_Omega; in both
\* engines Omega >= 0, and Omega = 0 when all four Delta R are 0.
C9_OmegaNormAmplified ==
    IsOmegaResult =>
        /\ result.op = "FDJTMS.analyze" =>
               /\ result.Omega_sq = NormSq
               /\ \A i \in 1..4 :
                      result.dimensions[i].delta =
                          FAbs(FSub(result.dimensions[i].R_forward,
                                    result.dimensions[i].R_backward))
        /\ result.op = "calculate_Omega" =>
               /\ result.raw_Omega_sq = NormSq
               /\ result.Omega_sq = FMul(Frac(9, 4), NormSq)
               /\ \A i \in 1..4 :
                      result.Delta_R[i] =
                          FAbs(FSub(calculate_R_for_dimension(get_blocks(digits), OmegaDims[i]),
                                    calculate_R_for_dimension(get_blocks(Reverse(digits)),
                                                              OmegaDims[i])))
        /\ result.Omega_sq.num >= 0 /\ result.Omega_sq.den > 0
        /\ (\A i \in 1..4 : DeltaR(i) = Zero) => result.Omega_sq = Zero

\* calculate_Omega amplified a norm to which two dimensions contribute
C9_Witness ==
    /\ result.op = "calculate_Omega"
    /\ "Omega_sq" \in DOMAIN result
    /\ \E i, j \in 1..4 : i # j /\ result.Delta_R[i] # Zero /\ result.Delta_R[j] # Zero
    /\ result.Omega_sq # result.raw_Omega_sq

\* the tier of Omega against two cut points given in millionths
TierOf(Omega_sq, low, high) ==
    IF SqrtLt(Omega_sq, low) THEN 1 ELSE IF SqrtLt(Omega_sq, high) THEN 2 ELSE 3

StructureTier ==
    CASE result.structure \in {"no_structure", "random"} -> 1
      [] result.structure \in {"weak_structure", "ordered"} -> 2
      [] result.structure \in {"strong_structure", "highly_ordered"} -> 3

\* C10 as stated: every Omega engine classifies Omega against thresholds
\* that default to weak 0.0402 and strong 0.0602 (0.040158 and 0.060237):
\* below weak is the lowest tier, between them the middle tier, above
\* strong the highest tier.
C10_SharedThresholds ==
    IsOmegaResult => StructureTier = TierOf(result.Omega_sq, 40158, 60237)

\* C10 amended: FDJTMS.analyze classifies Omega against its benchmark
\* thresholds 0.040158 and 0.060237 (random / ordered / highly ordered) and
\* returns them; FourDimNineHarmonyModel.calculate_Omega classifies its
\* amplified Omega against the fixed cut points 0.01 and 0.15 (no / weak /
\* strong structure, with health normal / healthy / cancerous); in each
\* engine the tier is Omega < low, low <= Omega < high, Omega >= high.
C10_EngineThresholds ==
    IsOmegaResult =>
        /\ result.op = "FDJTMS.analyze" =>
               /\ StructureTier = TierOf(result.Omega_sq, 40158, 60237)
               /\ result.structure \in {"random", "ordered", "highly_ordered"}
               /\ result.thresholds = [weak |-> 40158, strong |-> 60237]
        /\ result.op = "calculate_Omega" =>
               /\ StructureTier = TierOf(result.Omega_sq, 10000, 150000)
               /\ result.structure \in {"no_structure", "weak_structure", "strong_structure"}
               /\ result.health_status =
                      <<"normal", "healthy", "cancerous">>[StructureTier]

\* calculate_Omega called an Omega above 0.0602 a weak structure
C10_Witness ==
    /\ result.op = "calculate_Omega"
    /\ "Omega_sq" \in DOMAIN result
    /\ result.structure = "weak_structure"
    /\ ~SqrtLt(result.Omega_sq, 60237)

\* a call was made in this step
Called == calls_left' # calls_left

\* the Omega diagnosis the call of this step returned, if it computed one
ReturnedDiagnosis ==
    IF result'.op = "diagnose"
    THEN IF "result" \in DOMAIN result' THEN result'.result ELSE None
    ELSE IF result'.op = "calculate_Omega" THEN result' ELSE None

DiagnosisFields ==
    {"timestamp", "sequence_length", "Omega_sq", "raw_Omega_sq", "Delta_R",
     "structure", "health_status", "amplifier"}

AnalysisOps == {"FourTrackAnalyzer.analyze", "calculate_Omega", "FDJTMS.analyze"}

\* this step calls, on a valid list, the entry point the previous call used
RepeatedCall ==
    /\ Called
    /\ ~HasInvalidElement
    /\ result.op \in AnalysisOps
    /\ result'.op = result.op

InUnit(q) == FLe(Zero, q) /\ FLe(q, One)

\* a PairingResult within its bounds
BoundedPairing(p) ==
    /\ 0 <= p.valid_pairs
    /\ p.valid_pairs <= p.total_pairs
    /\ InUnit(p.pair_ratio)

TrackNames == {"track1", "track2", "track3", "track4"}
DirectNames == {"track2", "track3", "track4"}

\* C13: in every result of FourTrackAnalyzer.analyze on a valid list each
\* pairing result has 0 <= valid_pairs <= total_pairs and a pair_ratio in
\* [0, 1], and each similarity term and each overall symmetry is in [0, 1].
C13_RatiosBounded ==
    (IsFT /\ ~HasError) =>
        /\ \A t \in TrackNames : \A d \in Directions :
               /\ BoundedPairing(result[t][d].symbol_pairs)
               /\ BoundedPairing(result[t][d].digit_pairs)
               /\ BoundedPairing(result[t][d].global_digit_pairs)
        /\ \A t \in DirectNames : \A d \in Directions :
               BoundedPairing(result.direct_pairing[t][d])
        /\ \A t \in TrackNames :
               /\ InUnit(result[t].symmetry.pair_ratio_similarity)
               /\ InUnit(result[t].symmetry.yang_percent_similarity)
               /\ InUnit(result[t].symmetry.global_ratio_similarity)
               /\ InUnit(result[t].symmetry.overall_symmetry)
               /\ InUnit(result.reverse_analysis.track_symmetry[t])
        /\ \A t \in DirectNames :
               InUnit(result.direct_pairing[t].symmetry.pair_ratio_similarity)
        /\ InUnit(result.reverse_analysis.overall_symmetry)

\* pairing results strictly inside their bounds and a similarity strictly
\* between 0 and 1
C13_Witness ==
    /\ IsFT
    /\ ~HasError
    /\ result.track1.forward.symbol_pairs.valid_pairs > 0
    /\ result.track1.forward.symbol_pairs.valid_pairs
           < result.track1.forward.symbol_pairs.total_pairs
    /\ result.track2.forward.global_digit_pairs.valid_pairs > 0
    /\ result.track2.forward.global_digit_pairs.valid_pairs
           < result.track2.forward.global_digit_pairs.total_pairs
    /\ \E t \in DirectNames :
           /\ FLt(Zero, result.direct_pairing[t].symmetry.pair_ratio_similarity)
           /\ FLt(result.direct_pairing[t].symmetry.pair_ratio_similarity, One)

\* how many elements of the list lie in the set S
CountIn(ds, S) == Cardinality({i \in 1..Len(ds) : ds[i] \in S})

\* C14: for every non-empty valid list of any length N, the yinyang record
\* of the attribute track (track1) counts the whole list: yang_count is the
\* number of digits in 1..7, yin_count the number of digits 0, 8 and 9,
\* yang_count + yin_count = N and yang_percent = yang_count / N.
C14_AttributePolarity ==
    (IsFT /\ ~HasError /\ Len(digits) >= 1) =>
        \A d \in Directions :
            /\ result.track1[d].yinyang.yang_count = CountIn(Directed(d), 1..7)
            /\ result.track1[d].yinyang.yin_count = CountIn(Directed(d), {0, 8, 9})
            /\ result.track1[d].yinyang.yang_count + result.track1[d].yinyang.yin_count
                   = Len(digits)
            /\ result.track1[d].yinyang.yang_percent
                   = Frac(result.track1[d].yinyang.yang_count, Len(digits))

\* a bit pattern that is not three binary digits
Malformed(bits) == Len(bits) # 3 \/ \E i \in 1..Len(bits) : bits[i] \notin {0, 1}

\* C15: a state encoder (FourTrackAnalyzer._binary_to_state_id,
\* FourDimNineHarmonyModel.get_state_id) never returns a valid StateId, a
\* value in 1..8, for malformed input: a length other than 3 or an element
\* that is not binary.
C15_MalformedNeverValid ==
    (result.op \in {"binary_to_state_id", "get_state_id"} /\ Malformed(result.bits)) =>
        result.state_id \notin 1..8

\* C16: calculate_Omega and FDJTMS.analyze on a list of at least 12
\* elements that holds a value outside 0..9 report an error result to the
\* caller; they neither raise an exception nor return an Omega value.
C16_InvalidOmegaInputReported ==
    (/\ result.op \in {"calculate_Omega", "FDJTMS.analyze"}
     /\ Len(digits) >= 12
     /\ HasInvalidElement) =>
        /\ HasError
        /\ "raised" \notin DOMAIN result
        /\ "Omega_sq" \notin DOMAIN result

IsComposite == result.op = "CompositeAnalyzer.analyze"

\* C17: CompositeAnalyzer.analyze on the empty list, or on any other
\* invalid list, returns a result whose 'error' is 'Invalid input' and
\* whose four_track, pattern, statistical and summary sections are empty:
\* no sub-analyzer result is in it.
C17_CompositeInvalidInput ==
    (IsComposite /\ (digits = <<>> \/ HasInvalidElement)) =>
        /\ DOMAIN result = {"op", "error", "four_track", "pattern", "statistical", "summary"}
        /\ result.error = "Invalid input"
        /\ \A section \in {"four_track", "pattern", "statistical", "summary"} :
               DOMAIN result[section] = {}

\* the composite analyzer answered a list whose last element is invalid
C17_Witness ==
    /\ IsComposite
    /\ Len(digits) = MaxShortLen
    /\ digits[1] \in Digit
    /\ digits[MaxShortLen] \notin Digit
    /\ result.error = "Invalid input"

\* C18: the 'symmetry' score of the composite result is min(1, 2 * r),
\* r being the pair_ratio of track1's symbol_pairs in the four-track
\* analysis of the same list.
C18_CompositeSymmetryScore ==
    (IsComposite /\ ~HasError) =>
        LET r == result.four_track.track1.forward.symbol_pairs.pair_ratio
        IN  result.scores.symmetry =
                IF FLe(FMul(r, Frac(2, 1)), One) THEN FMul(r, Frac(2, 1)) ELSE One

\* C19: for a valid list FourTrackAnalyzer.analyze returns, for each of
\* track1..track4, 'forward' and 'backward' records holding 'window_count',
\* 'nine_sum_pairs' (valid_pairs, total_pairs, pair_ratio) and 'yinyang'
\* (yang_count, yin_count, ratio, yang_percent), and a 'symmetry' record
\* holding pair_ratio_diff, pair_ratio_similarity, yang_percent_diff,
\* yang_percent_similarity and overall_symmetry.
C19_TrackRecordShape ==
    (IsFT /\ ~HasError) =>
        \A t \in TrackNames :
            /\ {"forward", "backward", "symmetry"} \subseteq DOMAIN result[t]
            /\ \A d \in Directions :
                   /\ {"window_count", "nine_sum_pairs", "yinyang"}
                          \subseteq DOMAIN result[t][d]
                   /\ {"valid_pairs", "total_pairs", "pair_ratio"}
                          \subseteq DOMAIN result[t][d].nine_sum_pairs
                   /\ {"yang_count", "yin_count", "ratio", "yang_percent"}
                          \subseteq DOMAIN result[t][d].yinyang
            /\ {"pair_ratio_diff", "pair_ratio_similarity", "yang_percent_diff",
                "yang_percent_similarity", "overall_symmetry"}
                   \subseteq DOMAIN result[t].symmetry

\* the blocks are the consecutive slices of B elements of the list, the
\* incomplete slice at its end left out
FixedPartition(blocks, B) ==
    /\ Len(blocks) = Len(digits) \div B
    /\ \A k \in 0..(Len(blocks) - 1) :
           /\ Len(blocks[k + 1]) = B
           /\ blocks[k + 1] = Slice(digits, B * k, B * k + B)

BitTuples == [1..3 -> {0, 1}]
Complement(bits) == [i \in 1..Len(bits) |-> 1 - bits[i]]

\* the encoder whose call the result records
EncoderOf(bits) ==
    IF result.op = "get_state_id" THEN get_state_id(bits)
    ELSE binary_to_state_id(bits)

\* C21: a state encoder maps the 8 three-bit tuples one-to-one onto the
\* StateIds 1..8 and commutes with complementation: for every tuple t,
\* 9 - encode(t) = encode(complement of t), so the id paired with encode(t)
\* is the id of the complement and of no other tuple.
C21_EncoderBijectiveComplement ==
    (result.op \in {"binary_to_state_id", "get_state_id"} /\ ~Malformed(result.bits)) =>
        /\ result.state_id \in 1..8
        /\ \A t \in BitTuples : EncoderOf(t) = result.state_id <=> t = result.bits
        /\ {EncoderOf(t) : t \in BitTuples} = 1..8
        /\ 9 - result.state_id = EncoderOf(Complement(result.bits))
        /\ \A t \in BitTuples :
               bagua_get(result.state_id) = EncoderOf(t) <=> t = Complement(result.bits)

\* a tuple with both bit values was encoded by the engine's get_state_id
C21_Witness ==
    /\ result.op = "get_state_id"
    /\ result.bits = <<1, 1, 0>>
    /\ result.state_id = 2

\* every digit occurs as often as its complement in the table of track t
Balanced(t) ==
    \A p \in ValidDigitPairs(t) : Occurrences(digits)[p[1]] = Occurrences(digits)[p[2]]

\* C22: when every digit of the list occurs exactly as often as its
\* complementary digit under the pairing table of an alphabet track, the
\* global pairing of that track pairs all digits: valid_pairs =
\* total_pairs = N / 2, the ratio is 1 and nothing is left unpaired.
C22_BalancedPairsAll ==
    (IsFT /\ ~HasError) =>
        \A t \in DirectNames : \A d \in Directions :
            Balanced(t) =>
                /\ Len(digits) % 2 = 0
                /\ result[t][d].global_digit_pairs.valid_pairs = Len(digits) \div 2
                /\ result[t][d].global_digit_pairs.total_pairs = Len(digits) \div 2
                /\ result[t][d].global_digit_pairs.pair_ratio = One
                /\ DOMAIN result[t][d].global_digit_pairs.unpaired = {}

\* the sum-to-9 track paired all digits of a list of ten or more digits
\* that is not balanced for track3, which left some of them unpaired
C22_Witness ==
    /\ IsFT
    /\ Len(digits) >= 10
    /\ Balanced("track2")
    /\ ~Balanced("track3")
    /\ result.track2.forward.global_digit_pairs.valid_pairs = Len(digits) \div 2
    /\ result.track3.forward.global_digit_pairs.valid_pairs
           < result.track3.forward.global_digit_pairs.total_pairs

\* C24: for every string s over A, C, G, T of any length, odd or even,
\* decode(encode(s)) = s, for the DNAEncoder of dna_encoder.py with the
\* triangle scheme and for the DNAEncoder of dna_four_track_enhanced.py.
C24_DecodeInvertsEncode ==
    (/\ result.op \in {"DNAEncoder.decode", "Enhanced.DNAEncoder.decode"}
     /\ \A i \in 1..Len(digits) : digits[i] \in Bases) =>
        result.decoded = digits

\* C23: after any save_constant, delete_constant and load_constant calls,
\* load_constant(name, m) returns the first m digits of the list most
\* recently saved under the name, and [] when the name was deleted after
\* its last save or was never saved.
C23_LoadReturnsLastSaved ==
    result.op = "load_constant" =>
        result.digits = Slice(saved[result.name], 0, result.max_digits)

\* C30: the DNA cache is transparent: after any earlier encode_dna calls,
\* encode_dna(s) returns the digit list the encoder produces for s itself,
\* never the digits cached for another sequence.
C30_DnaCacheTransparent ==
    (result.op = "encode_dna" /\ "digits" \in DOMAIN result) =>
        result.digits = DNA_encode(result.dna_sequence).encoded_digits

\* C26: diagnose_reverse_calculation reports is_reversed_correctly = True
\* for every test sequence that holds at least one full block.
C26_ReverseDiagnosisPasses ==
    (/\ result.op = "diagnose_reverse_calculation"
     /\ result.sequence_length >= block_size) =>
        result.is_reversed_correctly

\* C25: for track2, track3 and track4 of FourTrackAnalyzer the forward and
\* the backward result are identical on every valid input, so
\* global_ratio_diff = 0, yang_percent_diff = 0 and overall_symmetry = 1
\* whatever the order of the digits.
C25_AlphabetTracksSymmetric ==
    (IsFT /\ ~HasError) =>
        \A t \in DirectNames :
            /\ result[t].forward = result[t].backward
            /\ result[t].symmetry.global_ratio_diff = Zero
            /\ result[t].symmetry.yang_percent_diff = Zero
            /\ result[t].symmetry.overall_symmetry = One

\* a list that is not its own reverse, on which track2 formed pairs, left
\* digits unpaired and counted both polarities
C25_Witness ==
    /\ IsFT
    /\ ~HasError
    /\ digits # Reverse(digits)
    /\ result.track2.forward = result.track2.backward
    /\ result.track2.forward.global_digit_pairs.valid_pairs > 0
    /\ DOMAIN result.track2.forward.global_digit_pairs.unpaired # {}
    /\ result.track2.forward.yinyang.yang_count > 0
    /\ result.track2.forward.yinyang.yin_count > 0

\* the sum of the counts of a dictionary digit -> count
RECURSIVE SumCounts(_)
SumCounts(f) ==
    IF DOMAIN f = {} THEN 0
    ELSE LET d == CHOOSE x \in DOMAIN f : TRUE
         IN  f[d] + SumCounts([x \in (DOMAIN f) \ {d} |-> f[x]])

\* the remaining counts after the first k rules of a track
RemainingAfter(ds, track_name, k) ==
    apply_rules([valid_pairs |-> 0, pair_types |-> <<>>,
                 remaining |-> Counter(ds)],
                SubSeq(pair_rules(track_name), 1, k), 1).remaining

NonNegative(remaining) == \A d \in DOMAIN remaining : remaining[d] >= 0

NeverNegative(ds, track_name) ==
    \A k \in 0..Len(pair_rules(track_name)) :
        NonNegative(RemainingAfter(ds, track_name, k))

\* C27: global pairing conserves digits: on every list of N digits and for
\* every alphabet track, 2 * valid_pairs plus the sum of the unpaired
\* counts is N, in core/analyzers and in the enhanced analyzer, and no
\* remaining count becomes negative while the rules are applied.
C27_PairingConservesDigits ==
    /\ result.op = "_analyze_global_digit_pairs" =>
           /\ 2 * result.pairs.valid_pairs + SumCounts(result.pairs.unpaired)
                  = Len(digits)
           /\ NeverNegative(digits, result.track_name)
    /\ result.op = "_analyze_global_pairs" =>
           /\ 2 * result.pairs.valid + SumCounts(result.pairs.unpaired)
                  = Len(digits)
           /\ NeverNegative(digits, result.track_name)

\* global pairing of a list of five or more digits formed pairs under
\* several rules and left digits unpaired
C27_Witness ==
    /\ result.op = "_analyze_global_digit_pairs"
    /\ Len(digits) >= 5
    /\ result.pairs.valid_pairs >= 2
    /\ Cardinality(DOMAIN result.pairs.pair_types) >= 2
    /\ SumCounts(result.pairs.unpaired) >= 2

\* C28: for the three reference alphabet tracks the global pairing result
\* (valid_pairs, ratio, unpaired multiset) is the same for every order in
\* which the track's rules are evaluated.
C28_RuleOrderIrrelevant ==
    result.op = "global_pairing" =>
        /\ result.pairs.valid_pairs
               = analyze_global_digit_pairs(digits, result.track_name).valid_pairs
        /\ result.pairs.pair_ratio
               = analyze_global_digit_pairs(digits, result.track_name).pair_ratio
        /\ result.pairs.unpaired
               = analyze_global_digit_pairs(digits, result.track_name).unpaired

\* the rules ran in an order other than the declared one, formed pairs
\* and left digits unpaired
C28_Witness ==
    /\ result.op = "global_pairing"
    /\ result.order # Rotation(Len(result.order), 0)
    /\ result.pairs.valid_pairs >= 2
    /\ DOMAIN result.pairs.unpaired # {}

\* C29: after any add_analyzer and remove_analyzer calls, analyze on a
\* valid list still returns a result dictionary and does not raise.
C29_AnalyzeSurvivesRegistryChanges ==
    (IsComposite /\ validate_input(digits)) => "raised" \notin DOMAIN result
====
